---- MODULE Spec2Model ----
(***************************************************************************)
(* A model of the behavior-tree engine: the composite nodes of             *)
(* behavior_tree/nodes/composites.py, the tick lifecycle of                *)
(* behavior_tree/core/node.py and the RetryNode decorator of               *)
(* behavior_tree/nodes/decorators.py.                                      *)
(*                                                                         *)
(* Each subsystem has its own variables, its own initial predicate and its *)
(* own specification; the variables of the other subsystems stay at their  *)
(* idle values.  A child's tick() is an input: its status is drawn from    *)
(* every status BehaviorNode.tick() can return.                            *)
(***************************************************************************)
EXTENDS Integers, Sequences, FiniteSets

\* ---------------------------------------------------------------- bounds

\* The largest number of children of a composite.
MaxChildren == 3

\* ----------------------------------------------------------- NodeStatus

\* class NodeStatus
Status == {"SUCCESS", "FAILURE", "RUNNING", "INVALID", "SKIPPED", "ERROR"}

\* "no status": a child not ticked, a node with no result yet
NONE == "NONE"

\* What a child's tick() can hand to its parent: BehaviorNode.tick() returns
\* self.status, which is any member of NodeStatus.
ChildReturns == Status

\* ------------------------------------------------------------ variables

VARIABLES
    \* ---- SequenceNode / SelectorNode / ReactiveSequence / ReactiveSelector
    kind,            \* the class of the composite
    memory_policy,   \* MemoryPolicy
    numChildren,     \* len(self.children)
    current_child,   \* self.current_child
    childStatus,     \* children[i].status, by index 0..numChildren-1
    pc,              \* position of the _tick coroutine
    pre_i,           \* loop variable i of the reactive pre-check loop
    result,          \* what the last _tick returned (NONE before the first)
    \* history of the composite, kept for the properties
    ticked,          \* this tick: the children ticked, in order, with what they returned
    curAtStart,      \* current_child when this tick began
    settledAtStart,  \* when this tick began every child's status was SUCCESS or FAILURE
    repeats,         \* this tick: every child returned the status it had before
    prevResult,      \* result of the tick before this one
    prevRunning,     \* index of the child that returned RUNNING in the tick before, or -1
    resLast,         \* this resolution: what each child last returned (NONE: not ticked)
    \* ---- BehaviorNode (node.py)
    is_initialized,  \* self._is_initialized
    is_setup,        \* self._is_setup
    node_status,     \* self.status
    metadata,        \* self.metadata, the counters of NodeMetadata
    node_pc,         \* position of the tick coroutine
    events,          \* the events emitted by the last call, in order
    returned,        \* what the last tick() returned (NONE: it returned nothing)
    escaped,         \* an exception left the last tick()
    call,            \* the last call and its inputs
    \* ---- RetryNode (decorators.py)
    has_child,       \* self.child is not None
    max_attempts,    \* self.max_attempts
    base_delay,      \* self.base_delay
    exponential_backoff,
    jitter,          \* self.jitter
    attempt,         \* self._attempt
    retry_pc,        \* position of the _tick coroutine
    retry_result,    \* what the last _tick returned (NONE before the first)
    \* history of the RetryNode, kept for the properties
    waits,           \* this resolution: the delays slept, in order
    invocations,     \* this resolution: calls of child.tick()
    failures,        \* this resolution: calls that returned neither SUCCESS nor RUNNING
    lastChild,       \* what the child returned last (NONE: not invoked in this tick)
    onlyFailure,     \* this resolution: every call of the child returned FAILURE
    \* ---- ParallelNode (composites.py)
    policy,          \* self.policy
    success_threshold,
    failure_threshold,
    synchronized,
    names,           \* the names of the children, in order
    child_status,    \* self.child_status: path -> status (NONE: no entry)
    par_pc,          \* position of the _tick coroutine
    pending,         \* the _run_child tasks that have not finished
    collected,       \* this tick: what each child returned (NONE: not ticked)
    par_result,      \* what the last _tick returned (NONE before the first)
    reported,        \* this resolution: the children that returned SUCCESS or FAILURE in an earlier tick
    \* ---- one record each: the fields of the node and its history
    repeatNode,      \* RepeatNode (decorators.py)
    timeoutNode,     \* TimeoutNode (decorators.py) and the task of its child
    cooldownNode,    \* CooldownNode (decorators.py) and the clock
    actionNode,      \* ActionNode (leaves.py) and its callback
    gateNode,        \* BlackboardConditionNode (decorators.py)
    manager,         \* BehaviorTreeManager (tree_manager.py), its root and its run() task
    blackboard,      \* Blackboard (blackboard.py) and the workers that call it
    randomNode,      \* RandomSelector (composites.py)
    emitter,         \* a BehaviorNode's event_handlers and what _emit_event invoked
    shape,           \* ParentNode objects: their parent and children fields
    client,          \* BlackboardClient objects and the subscribers of their blackboard
    loader           \* ConfigLoader and the file save_to_file / load_from_file use

compVars == <<kind, memory_policy, numChildren, current_child, childStatus, pc,
              pre_i, result, ticked, curAtStart, settledAtStart, repeats, prevResult,
              prevRunning, resLast>>

nodeVars == <<is_initialized, is_setup, node_status, metadata, node_pc, events, returned,
              escaped, call>>

retryVars == <<has_child, max_attempts, base_delay, exponential_backoff, jitter,
               attempt, retry_pc, retry_result, waits, invocations, failures, lastChild,
               onlyFailure>>

parVars == <<policy, success_threshold, failure_threshold, synchronized, names,
             child_status, par_pc, pending, collected, par_result, reported>>

recVars == <<repeatNode, timeoutNode, cooldownNode, actionNode>>

moreVars == <<gateNode, manager, blackboard>>

lateVars == <<randomNode, emitter, shape, client, loader>>

vars == <<compVars, nodeVars, retryVars, parVars, recVars, moreVars, lateVars>>

\* The state of a subsystem that a specification leaves alone.
CompositeIdle ==
    /\ kind = "SequenceNode"
    /\ memory_policy = "FRESH"
    /\ numChildren = 0
    /\ current_child = 0
    /\ childStatus = <<>>
    /\ pc = "off"
    /\ pre_i = 0
    /\ result = NONE
    /\ ticked = <<>>
    /\ curAtStart = 0
    /\ settledAtStart = FALSE
    /\ repeats = TRUE
    /\ prevResult = NONE
    /\ prevRunning = -1
    /\ resLast = <<>>

NodeIdle ==
    /\ is_initialized = FALSE
    /\ is_setup = FALSE
    /\ node_status = "INVALID"
    /\ metadata = <<>>
    /\ node_pc = "off"
    /\ events = <<>>
    /\ returned = NONE
    /\ escaped = FALSE
    /\ call = [op |-> "off"]

RetryIdle ==
    /\ has_child = FALSE
    /\ max_attempts = 0
    /\ base_delay = 0
    /\ exponential_backoff = FALSE
    /\ jitter = 0
    /\ attempt = 0
    /\ retry_pc = "off"
    /\ retry_result = NONE
    /\ waits = <<>>
    /\ invocations = 0
    /\ failures = 0
    /\ lastChild = NONE
    /\ onlyFailure = TRUE

\* A node kept in a record that a specification leaves alone.
Off == [pc |-> "off"]

RecordsIdle ==
    /\ repeatNode = Off
    /\ timeoutNode = Off
    /\ cooldownNode = Off
    /\ actionNode = Off

ParallelIdle ==
    /\ policy = "REQUIRE_ALL"
    /\ success_threshold = -1
    /\ failure_threshold = -1
    /\ synchronized = FALSE
    /\ names = <<>>
    /\ child_status = <<>>
    /\ par_pc = "off"
    /\ pending = {}
    /\ collected = <<>>
    /\ par_result = NONE
    /\ reported = {}

MoreIdle ==
    /\ gateNode = Off
    /\ manager = Off
    /\ blackboard = Off

LateIdle ==
    /\ randomNode = Off
    /\ emitter = Off
    /\ shape = Off
    /\ client = Off
    /\ loader = Off

\* ===================================================================
\* Composites: composites.py
\* ===================================================================

\* class MemoryPolicy
MemoryPolicy == {"PERSISTENT", "FRESH"}

SequenceKinds == {"SequenceNode", "ReactiveSequence"}
SelectorKinds == {"SelectorNode", "ReactiveSelector"}
ReactiveKinds == {"ReactiveSequence", "ReactiveSelector"}
CompositeKinds == SequenceKinds \cup SelectorKinds

Children == 0 .. (numChildren - 1)

\* the variables of the other subsystems
notComp == <<nodeVars, retryVars, parVars, recVars, moreVars, lateVars>>

\* SequenceNode.__init__, SelectorNode.__init__: current_child = 0; the
\* children are added before the first tick and start INVALID.
InitComposite ==
    /\ MoreIdle
    /\ LateIdle
    /\ RecordsIdle
    /\ NodeIdle
    /\ RetryIdle
    /\ ParallelIdle
    /\ kind \in CompositeKinds
    /\ memory_policy \in MemoryPolicy
    /\ numChildren \in 0 .. MaxChildren
    /\ current_child = 0
    /\ childStatus = [i \in 0 .. (numChildren - 1) |-> "INVALID"]
    /\ pc = "idle"
    /\ pre_i = 0
    /\ result = NONE
    /\ ticked = <<>>
    /\ curAtStart = 0
    /\ settledAtStart = FALSE
    /\ repeats = TRUE
    /\ prevResult = NONE
    /\ prevRunning = -1
    /\ resLast = [i \in 0 .. (numChildren - 1) |-> NONE]

\* The index of the child whose RUNNING ended the tick recorded in `ticked`.
RunningChild(log, r) ==
    IF r = "RUNNING" /\ Len(log) > 0 THEN log[Len(log)].child ELSE -1

\* A call of _tick() begins: the history of the tick before is shifted, and
\* a tick after a terminal result opens a new resolution.
BeginHistory ==
    /\ ticked' = <<>>
    /\ curAtStart' = current_child
    /\ settledAtStart' = \A i \in Children : childStatus[i] \in {"SUCCESS", "FAILURE"}
    /\ repeats' = TRUE
    /\ prevResult' = result
    /\ prevRunning' = RunningChild(ticked, result)
    /\ resLast' = IF result = "RUNNING" THEN resLast
                  ELSE [i \in Children |-> NONE]

\* `await child.tick()` on child c returned s.
ChildTicked(c, s) ==
    /\ childStatus' = [childStatus EXCEPT ![c] = s]
    /\ ticked' = Append(ticked, [child |-> c, status |-> s])
    /\ resLast' = [resLast EXCEPT ![c] = s]
    /\ repeats' = (repeats /\ s = childStatus[c])

\* _tick() returns r.
Return(r) ==
    /\ result' = r
    /\ pc' = "idle"

\* SequenceNode._tick, lines 39-44: the empty check and the FRESH restart.
\* Entered from tick() (pc = "idle") or from ReactiveSequence's super()._tick()
\* (pc = "super").
\* The memory policy ignored: every tick restarts at child 0.
SequenceEnterBody_AlwaysRestart ==
    IF numChildren = 0
    THEN /\ Return("SUCCESS")
         /\ UNCHANGED current_child
    ELSE /\ current_child' = 0
         /\ pc' = "loop"
         /\ UNCHANGED result

SequenceEnterBody ==
    IF numChildren = 0
    THEN /\ Return("SUCCESS")
         /\ UNCHANGED current_child
    ELSE IF memory_policy = "PERSISTENT" /\ current_child >= numChildren
    THEN \* the while condition is false on entry
         /\ current_child' = 0
         /\ Return("SUCCESS")
    ELSE /\ current_child' = IF memory_policy = "FRESH" THEN 0 ELSE current_child
         /\ pc' = "loop"
         /\ UNCHANGED result

SequenceEnter ==
    /\ kind \in SequenceKinds
    /\ \/ /\ pc = "idle"
          /\ kind = "SequenceNode"
          /\ BeginHistory
       \/ /\ pc = "super"
          /\ UNCHANGED <<ticked, curAtStart, settledAtStart, repeats, prevResult,
                         prevRunning, resLast>>
    /\ SequenceEnterBody
    /\ UNCHANGED <<kind, memory_policy, numChildren, childStatus, pre_i>>
    /\ UNCHANGED notComp

\* SequenceNode._tick, lines 51-63, after `status = await current.tick()`:
\* RUNNING is returned as is; FAILURE returns FAILURE, restarting only under
\* FRESH; any other status moves on to the next child, and past the last
\* child the sequence restarts and returns SUCCESS.
SequenceAfterChild(status) ==
    IF status = "RUNNING"
    THEN /\ Return("RUNNING")
         /\ UNCHANGED current_child
    ELSE IF status = "FAILURE"
    THEN /\ Return("FAILURE")
         /\ current_child' = IF memory_policy = "FRESH" THEN 0 ELSE current_child
    ELSE IF current_child + 1 < numChildren
    THEN /\ current_child' = current_child + 1
         /\ UNCHANGED <<pc, result>>
    ELSE /\ current_child' = 0
         /\ Return("SUCCESS")

\* SequenceNode._tick, lines 46-49: one pass of the while loop.
SequenceStep ==
    /\ kind \in SequenceKinds
    /\ pc = "loop"
    /\ current_child < numChildren
    /\ \E status \in ChildReturns :
          /\ ChildTicked(current_child, status)
          /\ SequenceAfterChild(status)
    /\ UNCHANGED <<kind, memory_policy, numChildren, pre_i, curAtStart,
                   settledAtStart, prevResult, prevRunning>>
    /\ UNCHANGED notComp

\* SelectorNode._tick, lines 90-95.
SelectorEnterBody ==
    IF numChildren = 0
    THEN /\ Return("FAILURE")
         /\ UNCHANGED current_child
    ELSE IF memory_policy = "PERSISTENT" /\ current_child >= numChildren
    THEN \* the while condition is false on entry
         /\ current_child' = 0
         /\ Return("FAILURE")
    ELSE /\ current_child' = IF memory_policy = "FRESH" THEN 0 ELSE current_child
         /\ pc' = "loop"
         /\ UNCHANGED result

SelectorEnter ==
    /\ kind \in SelectorKinds
    /\ \/ /\ pc = "idle"
          /\ kind = "SelectorNode"
          /\ BeginHistory
       \/ /\ pc = "super"
          /\ UNCHANGED <<ticked, curAtStart, settledAtStart, repeats, prevResult,
                         prevRunning, resLast>>
    /\ SelectorEnterBody
    /\ UNCHANGED <<kind, memory_policy, numChildren, childStatus, pre_i>>
    /\ UNCHANGED notComp

\* current_child advanced before the status is looked at: a PERSISTENT
\* selector resumes after the child that succeeded.
SelectorAfterChild_AdvanceFirst(status) ==
    IF status = "RUNNING"
    THEN /\ Return("RUNNING")
         /\ UNCHANGED current_child
    ELSE IF status = "SUCCESS"
    THEN /\ Return("SUCCESS")
         /\ current_child' = IF memory_policy = "FRESH" THEN 0 ELSE current_child + 1
    ELSE IF current_child + 1 < numChildren
    THEN /\ current_child' = current_child + 1
         /\ UNCHANGED <<pc, result>>
    ELSE /\ current_child' = 0
         /\ Return("FAILURE")

\* SelectorNode._tick, lines 102-114, after `status = await current.tick()`.
SelectorAfterChild(status) ==
    IF status = "RUNNING"
    THEN /\ Return("RUNNING")
         /\ UNCHANGED current_child
    ELSE IF status = "SUCCESS"
    THEN /\ Return("SUCCESS")
         /\ current_child' = IF memory_policy = "FRESH" THEN 0 ELSE current_child
    ELSE IF current_child + 1 < numChildren
    THEN /\ current_child' = current_child + 1
         /\ UNCHANGED <<pc, result>>
    ELSE /\ current_child' = 0
         /\ Return("FAILURE")

\* SelectorNode._tick, lines 97-100: one pass of the while loop.
SelectorStep ==
    /\ kind \in SelectorKinds
    /\ pc = "loop"
    /\ current_child < numChildren
    /\ \E status \in ChildReturns :
          /\ ChildTicked(current_child, status)
          /\ SelectorAfterChild(status)
    /\ UNCHANGED <<kind, memory_policy, numChildren, pre_i, curAtStart,
                   settledAtStart, prevResult, prevRunning>>
    /\ UNCHANGED notComp

\* ReactiveSequence._tick / ReactiveSelector._tick, lines 243-247 / 263-267:
\* the empty check, then the loop over range(self.current_child) begins.
ReactiveEnter ==
    /\ kind \in ReactiveKinds
    /\ pc = "idle"
    /\ BeginHistory
    /\ IF numChildren = 0
       THEN /\ Return(IF kind = "ReactiveSequence" THEN "SUCCESS" ELSE "FAILURE")
            /\ UNCHANGED pre_i
       ELSE /\ pre_i' = 0
            /\ pc' = IF current_child > 0 THEN "pre" ELSE "super"
            /\ UNCHANGED result
    /\ UNCHANGED <<kind, memory_policy, numChildren, current_child, childStatus>>
    /\ UNCHANGED notComp

\* The restart forgotten: a FAILURE in the re-check leaves current_child.
ReactiveSequenceAfterChild_NoRestart(i, status) ==
    IF status = "FAILURE"
    THEN /\ Return("FAILURE")
         /\ UNCHANGED <<current_child, pre_i>>
    ELSE /\ pre_i' = i + 1
         /\ pc' = IF i + 1 < current_child THEN "pre" ELSE "super"
         /\ UNCHANGED <<current_child, result>>

\* ReactiveSequence._tick, lines 249-251, after the tick of child i: a FAILURE
\* restarts the sequence and returns FAILURE; otherwise the loop goes on, and
\* after range(current_child) it calls super()._tick().
ReactiveSequenceAfterChild(i, status) ==
    IF status = "FAILURE"
    THEN /\ current_child' = 0
         /\ Return("FAILURE")
         /\ UNCHANGED pre_i
    ELSE /\ pre_i' = i + 1
         /\ pc' = IF i + 1 < current_child THEN "pre" ELSE "super"
         /\ UNCHANGED <<current_child, result>>

\* ReactiveSelector._tick, lines 269-271, after the tick of child i: a SUCCESS
\* moves current_child to i and returns SUCCESS.
ReactiveSelectorAfterChild(i, status) ==
    IF status = "SUCCESS"
    THEN /\ current_child' = i
         /\ Return("SUCCESS")
         /\ UNCHANGED pre_i
    ELSE /\ pre_i' = i + 1
         /\ pc' = IF i + 1 < current_child THEN "pre" ELSE "super"
         /\ UNCHANGED <<current_child, result>>

\* One pass of `for i in range(self.current_child)`, lines 247-248 / 267-268.
ReactiveStep ==
    /\ kind \in ReactiveKinds
    /\ pc = "pre"
    /\ \E status \in ChildReturns :
          /\ ChildTicked(pre_i, status)
          /\ IF kind = "ReactiveSequence"
             THEN ReactiveSequenceAfterChild(pre_i, status)
             ELSE ReactiveSelectorAfterChild(pre_i, status)
    /\ UNCHANGED <<kind, memory_policy, numChildren, curAtStart, settledAtStart,
                   prevResult, prevRunning>>
    /\ UNCHANGED notComp

\* SequenceNode.reset / SelectorNode.reset with ParentNode.reset: between two
\* ticks, current_child = 0 and every child's status is INVALID.
CompositeReset ==
    /\ pc = "idle"
    /\ result # NONE
    /\ current_child' = 0
    /\ childStatus' = [i \in Children |-> "INVALID"]
    /\ result' = NONE
    /\ ticked' = <<>>
    /\ resLast' = [i \in Children |-> NONE]
    /\ UNCHANGED <<kind, memory_policy, numChildren, pc, pre_i, curAtStart,
                   settledAtStart, repeats, prevResult, prevRunning>>
    /\ UNCHANGED notComp

NextComposite ==
    \/ SequenceEnter
    \/ SequenceStep
    \/ SelectorEnter
    \/ SelectorStep
    \/ ReactiveEnter
    \/ ReactiveStep
    \/ CompositeReset

SpecComposite == InitComposite /\ [][NextComposite]_vars

\* -------------------------------------------------------------------
\* Properties of the composites
\* -------------------------------------------------------------------

\* A call of _tick() has returned and nothing was reset since.
Returned == pc = "idle" /\ result # NONE

PlainKinds == {"SequenceNode", "SelectorNode"}

\* The children ticked in this tick, as a set of indices.
TickedChildren == {ticked[k].child : k \in 1 .. Len(ticked)}

\* The children are ticked one after the other in insertion order.
InInsertionOrder ==
    \A k \in 1 .. (Len(ticked) - 1) : ticked[k + 1].child = ticked[k].child + 1

\* C1: whenever a SequenceNode tick returns SUCCESS, every child was ticked
\* in that resolution and every child returned SUCCESS; whenever it returns
\* FAILURE, some child returned FAILURE and no child with a larger index was
\* ticked in that resolution; children are ticked in insertion order.
C1_SequenceContract ==
    (kind = "SequenceNode" /\ Returned) =>
        /\ result = "SUCCESS" => \A i \in Children : resLast[i] = "SUCCESS"
        /\ result = "FAILURE" =>
              \E f \in Children :
                  /\ resLast[f] = "FAILURE"
                  /\ \A j \in Children : j > f => resLast[j] = NONE
        /\ InInsertionOrder

\* C2: whenever a SelectorNode tick returns SUCCESS, exactly one child
\* returned SUCCESS in that resolution and no child with a larger index was
\* ticked (a child never reached is never invoked); it returns FAILURE only
\* if every child was ticked in that resolution and none of them succeeded
\* or is still running.
C2_SelectorContract ==
    (kind = "SelectorNode" /\ Returned) =>
        /\ result = "SUCCESS" =>
              \E w \in Children :
                  /\ resLast[w] = "SUCCESS"
                  /\ \A j \in Children : j # w => resLast[j] # "SUCCESS"
                  /\ \A j \in Children : j > w => resLast[j] = NONE
        /\ result = "FAILURE" =>
              \A i \in Children : resLast[i] \notin {NONE, "SUCCESS", "RUNNING"}

\* C5: under PERSISTENT, after a tick in which child i of a Sequence or
\* Selector returned RUNNING, the next tick starts at child i and ticks no
\* child with a smaller index; under FRESH every tick starts at child 0.
C5_MemoryPolicy ==
    (kind \in PlainKinds /\ Len(ticked) > 0) =>
        /\ (memory_policy = "PERSISTENT" /\ prevRunning # -1) =>
              /\ ticked[1].child = prevRunning
              /\ \A c \in TickedChildren : c >= prevRunning
        /\ memory_policy = "FRESH" => ticked[1].child = 0

\* C5 witness: a PERSISTENT composite resumed at child 1, which had returned
\* RUNNING in the tick before, and went on to the next child.
C5_Witness ==
    /\ kind \in PlainKinds
    /\ memory_policy = "PERSISTENT"
    /\ prevRunning = 1
    /\ Len(ticked) = 2
    /\ Returned

\* C6 as stated: a tick of a PERSISTENT Sequence or Selector whose children
\* had all reached a terminal status yields the result of the tick before
\* and invokes none of those children again.
C6_Idempotence ==
    (/\ kind \in PlainKinds
     /\ memory_policy = "PERSISTENT"
     /\ Returned
     /\ prevResult # NONE
     /\ settledAtStart) =>
        /\ result = prevResult
        /\ ticked = <<>>

\* C6 as amended: such a tick invokes the children again, starting at
\* current_child and never below it, and yields the result of the tick before
\* provided every child it invokes returns the status it returned before.
C6_IdempotenceAmended ==
    (/\ kind \in PlainKinds
     /\ memory_policy = "PERSISTENT"
     /\ Returned
     /\ prevResult # NONE
     /\ settledAtStart) =>
        /\ numChildren > 0 => (Len(ticked) > 0 /\ ticked[1].child = curAtStart)
        /\ \A c \in TickedChildren : c >= curAtStart
        /\ repeats => result = prevResult

\* C6 witness: a PERSISTENT composite with every child settled was ticked
\* again from a child other than the first, the children repeated themselves.
C6_Witness ==
    /\ kind \in PlainKinds
    /\ memory_policy = "PERSISTENT"
    /\ Returned
    /\ prevResult # NONE
    /\ settledAtStart
    /\ repeats
    /\ curAtStart > 0
    /\ Len(ticked) > 0

\* C7: in a ReactiveSelector whose current_child is c, a child i < c that
\* returns SUCCESS ends the tick: the tick returns SUCCESS, current_child is
\* i, child c is not ticked and no child is ticked after i.
C7_ReactivePreemption ==
    kind = "ReactiveSelector" =>
        \A k \in 1 .. Len(ticked) :
            (ticked[k].child < curAtStart /\ ticked[k].status = "SUCCESS") =>
                /\ k = Len(ticked)
                /\ Returned
                /\ result = "SUCCESS"
                /\ current_child = ticked[k].child
                /\ curAtStart \notin TickedChildren

\* C8: in a ReactiveSequence whose current_child is c > 0, child c is ticked
\* only after the children [0, c) were ticked again, in order; a FAILURE of
\* one of them ends the tick, which returns FAILURE with current_child = 0
\* and child c not ticked.
C8_ReactiveSequence ==
    (kind = "ReactiveSequence" /\ curAtStart > 0) =>
        /\ \A k \in 1 .. Len(ticked) :
              k <= curAtStart => ticked[k].child = k - 1
        /\ \A k \in 1 .. Len(ticked) :
              (ticked[k].child < curAtStart /\ ticked[k].status = "FAILURE") =>
                  /\ k = Len(ticked)
                  /\ Returned
                  /\ result = "FAILURE"
                  /\ current_child = 0
                  /\ curAtStart \notin TickedChildren

\* C8 witness: a ReactiveSequence resumed with current_child = 2, child 0
\* passed the re-check and child 1 failed it.
C8_Witness ==
    /\ kind = "ReactiveSequence"
    /\ curAtStart = 2
    /\ Len(ticked) = 2
    /\ ticked[2].child = 1
    /\ ticked[2].status = "FAILURE"
    /\ Returned

\* C35: after a SequenceNode or SelectorNode tick returns SUCCESS or FAILURE
\* current_child is 0 under both memory policies; after a tick returns
\* RUNNING it is the index of the child that returned RUNNING.
C35_CurrentChild ==
    (Returned /\ kind \in PlainKinds) =>
        /\ result \in {"SUCCESS", "FAILURE"} => current_child = 0
        /\ result = "RUNNING" => current_child = RunningChild(ticked, result)

\* C38: within one tick of a ReactiveSequence or ReactiveSelector no child
\* is ticked more than once, under both memory policies.
C38_ReactiveTicksOnce ==
    (Returned /\ kind \in ReactiveKinds) =>
        \A j \in 1 .. Len(ticked), k \in 1 .. Len(ticked) :
            j # k => ticked[j].child # ticked[k].child

\* ===================================================================
\* BehaviorNode: node.py
\* ===================================================================

\* The largest number of preconditions, and of postconditions, of the node.
MaxConditions == 1

\* The largest metadata.total_ticks the model follows.
MaxTicks == 3

\* What one precondition or postcondition does when called.
PredicateOutcome == {"true", "false", "raise"}

\* The outcomes of a list of at most MaxConditions predicates.
PredicateLists ==
    UNION {[1 .. n -> PredicateOutcome] : n \in 0 .. MaxConditions}

\* What the subclass _tick() does: it returns a status, raises an Exception,
\* or is cancelled (asyncio.CancelledError, which is not an Exception).
TickOutcome == Status \cup {"Exception", "CancelledError"}

notNode == <<compVars, retryVars, parVars, recVars, moreVars, lateVars>>

\* NodeMetadata()
NewMetadata ==
    [total_ticks |-> 0, success_count |-> 0, failure_count |-> 0,
     error_count |-> 0, last_status |-> NONE]

\* BehaviorNode.__init__
InitNode ==
    /\ MoreIdle
    /\ LateIdle
    /\ RecordsIdle
    /\ CompositeIdle
    /\ RetryIdle
    /\ ParallelIdle
    /\ is_initialized = FALSE
    /\ is_setup = FALSE
    /\ node_status = "INVALID"
    /\ metadata = NewMetadata
    /\ node_pc = "idle"
    /\ events = <<>>
    /\ returned = NONE
    /\ escaped = FALSE
    /\ call = [op |-> "init"]

\* NodeMetadata.update_tick_stats without line 59: last_status is not set.
update_tick_stats_KeepsLast(m, s) ==
    [m EXCEPT !.total_ticks = @ + 1,
              !.success_count = IF s = "SUCCESS" THEN @ + 1 ELSE @,
              !.failure_count = IF s = "FAILURE" THEN @ + 1 ELSE @,
              !.error_count = IF s = "ERROR" THEN @ + 1 ELSE @]

\* NodeMetadata.update_tick_stats
update_tick_stats(m, s) ==
    [m EXCEPT !.total_ticks = @ + 1,
              !.success_count = IF s = "SUCCESS" THEN @ + 1 ELSE @,
              !.failure_count = IF s = "FAILURE" THEN @ + 1 ELSE @,
              !.error_count = IF s = "ERROR" THEN @ + 1 ELSE @,
              !.last_status = s]

\* A check that lets a raising predicate pass: only a false one fails it.
CheckConditions_RaiseAsTrue(outcomes) ==
    \A k \in 1 .. Len(outcomes) : outcomes[k] # "false"

\* _check_preconditions / _check_postconditions: the first predicate that
\* returns false or raises makes the check False.
CheckConditions(outcomes) ==
    \A k \in 1 .. Len(outcomes) : outcomes[k] = "true"

\* How a check ended: "true", or what the first predicate that did not
\* return true did.
CheckEnded(outcomes) ==
    IF \A k \in 1 .. Len(outcomes) : outcomes[k] = "true" THEN "true"
    ELSE LET k == CHOOSE i \in 1 .. Len(outcomes) :
                      /\ outcomes[i] # "true"
                      /\ \A h \in 1 .. (i - 1) : outcomes[h] = "true"
         IN  outcomes[k]

\* tick(), lines 181-198: an uninitialized node returns ERROR; setup() runs if
\* it has not; a failed precondition check sets SKIPPED and returns; otherwise
\* ENTERING is emitted and _tick() is awaited.
TickCall ==
    /\ node_pc = "idle"
    /\ metadata.total_ticks < MaxTicks
    /\ \E pre \in PredicateLists :
          LET setupEvents == IF is_setup THEN <<>> ELSE <<"SETUP">>
          IN
          /\ call' = [op |-> "tick", initialized |-> is_initialized,
                      pre |-> IF is_initialized THEN CheckEnded(pre) ELSE NONE,
                      outcome |-> NONE, post |-> NONE, before |-> metadata]
          /\ escaped' = FALSE
          /\ IF ~is_initialized
             THEN /\ returned' = "ERROR"
                  /\ events' = <<>>
                  /\ UNCHANGED <<is_setup, node_status, node_pc>>
             ELSE IF ~CheckConditions(pre)
             THEN /\ is_setup' = TRUE
                  /\ node_status' = "SKIPPED"
                  /\ returned' = "SKIPPED"
                  /\ events' = setupEvents
                  /\ UNCHANGED node_pc
             ELSE /\ is_setup' = TRUE
                  /\ events' = setupEvents \o <<"ENTERING">>
                  /\ returned' = NONE
                  /\ node_pc' = "_tick"
                  /\ UNCHANGED node_status
    /\ UNCHANGED <<is_initialized, metadata>>
    /\ UNCHANGED notNode

\* The exception treated as a failure of the node, and not announced.
ExceptClause_AsFailure == [status |-> "FAILURE", events |-> <<>>]

\* tick(), lines 207-210: `except Exception` sets status = ERROR and emits ERROR.
ExceptClause == [status |-> "ERROR", events |-> <<"ERROR">>]

\* tick(), lines 201-210, the rest of the try statement: what self.status is
\* when the finally clause begins, and the events emitted on the way.  The
\* postconditions are checked whenever _tick() returned; a CancelledError
\* passes the except clause and leaves the status as it was.
TryStatement(outcome, post) ==
    IF outcome = "Exception"
    THEN ExceptClause
    ELSE IF outcome = "CancelledError"
    THEN [status |-> node_status, events |-> <<>>]
    ELSE [status |-> IF CheckConditions(post) THEN outcome ELSE "FAILURE",
          events |-> <<>>]

\* tick(), lines 201-221: _tick() ends, then the finally clause updates the
\* metadata and emits EXITING, and tick() returns self.status unless the
\* CancelledError goes on.
TickRun ==
    /\ node_pc = "_tick"
    /\ \E outcome \in TickOutcome, post \in PredicateLists :
          LET try == TryStatement(outcome, post)
          IN
          /\ outcome \notin Status => post = <<>>
          /\ call' = [call EXCEPT !.outcome = outcome,
                                  !.post = IF outcome \in Status
                                           THEN CheckEnded(post) ELSE NONE]
          /\ node_status' = try.status
          /\ metadata' = update_tick_stats(metadata, try.status)
          /\ events' = events \o try.events \o <<"EXITING">>
          /\ escaped' = (outcome = "CancelledError")
          /\ returned' = IF outcome = "CancelledError" THEN NONE ELSE try.status
    /\ node_pc' = "idle"
    /\ UNCHANGED <<is_initialized, is_setup>>
    /\ UNCHANGED notNode

\* BehaviorNode.initialize
Initialize ==
    /\ node_pc = "idle"
    /\ is_initialized' = TRUE
    /\ events' = <<"INITIALIZED">>
    /\ call' = [op |-> "initialize"]
    /\ UNCHANGED <<is_setup, node_status, metadata, node_pc, returned, escaped>>
    /\ UNCHANGED notNode

\* BehaviorNode.setup
Setup ==
    /\ node_pc = "idle"
    /\ is_setup' = TRUE
    /\ events' = IF is_setup THEN <<>> ELSE <<"SETUP">>
    /\ call' = [op |-> "setup"]
    /\ UNCHANGED <<is_initialized, node_status, metadata, node_pc, returned, escaped>>
    /\ UNCHANGED notNode

\* BehaviorNode.shutdown
Shutdown ==
    /\ node_pc = "idle"
    /\ is_setup' = FALSE
    /\ events' = IF is_setup THEN <<"SHUTDOWN">> ELSE <<>>
    /\ call' = [op |-> "shutdown"]
    /\ UNCHANGED <<is_initialized, node_status, metadata, node_pc, returned, escaped>>
    /\ UNCHANGED notNode

\* BehaviorNode.reset
Reset ==
    /\ node_pc = "idle"
    /\ node_status' = "INVALID"
    /\ events' = <<>>
    /\ call' = [op |-> "reset"]
    /\ UNCHANGED <<is_initialized, is_setup, metadata, node_pc, returned, escaped>>
    /\ UNCHANGED notNode

NextNode ==
    \/ TickCall
    \/ TickRun
    \/ Initialize
    \/ Setup
    \/ Shutdown
    \/ Reset

SpecNode == InitNode /\ [][NextNode]_vars

\* -------------------------------------------------------------------
\* Properties of BehaviorNode.tick
\* -------------------------------------------------------------------

\* The last call was a tick() whose _tick() raised an Exception; _tick() is
\* called only for an initialized node whose preconditions hold.
TickRaised ==
    /\ call.op = "tick"
    /\ call.outcome = "Exception"

\* Event e is among the events the last call emitted.
Emitted(e) == \E k \in 1 .. Len(events) : events[k] = e

\* C3: for an initialized node, an Exception raised by _tick() does not leave
\* tick(): tick() returns ERROR, node.status is ERROR, the ERROR event is
\* emitted and metadata.error_count counts the tick.
C3_ExceptionCaptured ==
    TickRaised =>
        /\ ~escaped
        /\ returned = "ERROR"
        /\ node_status = "ERROR"
        /\ Emitted("ERROR")
        /\ metadata.error_count = call.before.error_count + 1
        /\ metadata.total_ticks = call.before.total_ticks + 1

\* C3 witness: the _tick() of a node that had already counted an error raises
\* again.
C3_Witness ==
    /\ TickRaised
    /\ call.initialized
    /\ call.pre = "true"
    /\ call.before.error_count = 1
    /\ metadata.error_count = 2

\* The last call was a tick() of an initialized node whose precondition
\* check failed: a precondition returned false or raised.
PreconditionsFailed ==
    /\ call.op = "tick"
    /\ call.initialized
    /\ call.pre \in {"false", "raise"}

\* C16: if a precondition of an initialized node returns false or raises,
\* tick() returns SKIPPED with node.status = SKIPPED, _tick() is not invoked,
\* and neither ENTERING nor EXITING is emitted for that tick.
C16_PreconditionSkips ==
    PreconditionsFailed =>
        /\ returned = "SKIPPED"
        /\ node_status = "SKIPPED"
        /\ node_pc = "idle"
        /\ call.outcome = NONE
        /\ ~Emitted("ENTERING")
        /\ ~Emitted("EXITING")
        /\ ~escaped

\* C16 witness: a node that has completed a tick before is ticked with a
\* precondition that raises, and is skipped.
C16_Witness ==
    /\ PreconditionsFailed
    /\ call.pre = "raise"
    /\ call.before.total_ticks >= 1
    /\ returned = "SKIPPED"

\* The last call was a tick() whose _tick() returned status s.
TickReturned(s) ==
    /\ call.op = "tick"
    /\ node_pc = "idle"
    /\ call.outcome = s

\* C17: postconditions apply to terminal results only: when _tick() returns
\* SUCCESS or FAILURE and a postcondition is false or raises, tick() returns
\* FAILURE; when _tick() returns RUNNING, tick() returns RUNNING whatever the
\* postconditions do.
C17_PostconditionsTerminalOnly ==
    /\ \A s \in {"SUCCESS", "FAILURE"} :
          (TickReturned(s) /\ call.post # "true") => returned = "FAILURE"
    /\ TickReturned("RUNNING") => returned = "RUNNING"

\* C18: every tick() of an initialized node that returns a status is counted
\* exactly once in metadata.total_ticks, a SKIPPED tick included.  This is
\* the step of the accounting identity: total_ticks is changed by nothing
\* but tick(), so it equals the number of ticks that ended in one of the six
\* statuses exactly when each such tick adds one.
C18_TickAccounting ==
    (call.op = "tick" /\ call.initialized /\ returned # NONE) =>
        metadata.total_ticks = call.before.total_ticks + 1

\* C14: a node whose in-flight tick() is cancelled returns a terminal status
\* from that tick() and does not let the cancellation out.
C14_CancelledReturnsStatus ==
    (call.op = "tick" /\ node_pc = "idle" /\ call.outcome = "CancelledError") =>
        /\ ~escaped
        /\ returned \in {"SUCCESS", "FAILURE"}

\* The number of times event e was emitted by the last call.
EmittedTimes(e) == Cardinality({k \in 1 .. Len(events) : events[k] = e})

\* A tick() that emitted ENTERING has ended, by returning or by a
\* CancelledError.
TickEntered ==
    /\ call.op = "tick"
    /\ node_pc = "idle"
    /\ Emitted("ENTERING")

\* C37: a tick() that emits ENTERING emits exactly one EXITING before it
\* ends and updates the metadata exactly once (total_ticks grows by 1,
\* last_status is the status returned), whether _tick() returned or raised;
\* SETUP is emitted at most once, by a node that is not set up, before the
\* first ENTERING, and not again until shutdown().
C37_TickEvents ==
    /\ [](TickEntered =>
            /\ EmittedTimes("ENTERING") = 1
            /\ EmittedTimes("EXITING") = 1
            /\ events[Len(events)] = "EXITING"
            /\ metadata.total_ticks = call.before.total_ticks + 1
            /\ ~escaped => metadata.last_status = returned
            /\ EmittedTimes("SETUP") <= 1
            /\ Emitted("SETUP") => events[1] = "SETUP")
    /\ [][(node_pc = "idle" /\ Emitted("SETUP")') => (~is_setup /\ is_setup')]_vars

\* C37 witness: the _tick() of a node that was already set up raised, in
\* its second tick or later.
C37_Witness ==
    /\ TickEntered
    /\ call.outcome = "Exception"
    /\ ~Emitted("SETUP")
    /\ metadata.total_ticks >= 2

\* ===================================================================
\* RetryNode: decorators.py
\* ===================================================================

\* The largest max_attempts of the RetryNode.
MaxAttempts == 3

\* The largest delay, in time units.
MaxDelay == 2

\* The largest jitter, in time units.
MaxJitter == 1

\* The most calls of one resolution in which the child returns RUNNING.
MaxRunning == 2

notRetry == <<compVars, nodeVars, parVars, recVars, moreVars, lateVars>>

\* 2 ** n
RECURSIVE Pow2(_)
Pow2(n) == IF n <= 0 THEN 1 ELSE 2 * Pow2(n - 1)

\* RetryNode.__init__: _attempt = 0.
InitRetry ==
    /\ MoreIdle
    /\ LateIdle
    /\ RecordsIdle
    /\ CompositeIdle
    /\ NodeIdle
    /\ ParallelIdle
    /\ has_child \in BOOLEAN
    /\ max_attempts \in 0 .. MaxAttempts
    /\ base_delay \in 0 .. MaxDelay
    /\ exponential_backoff \in BOOLEAN
    /\ jitter \in 0 .. MaxJitter
    /\ attempt = 0
    /\ retry_pc = "idle"
    /\ retry_result = NONE
    /\ waits = <<>>
    /\ invocations = 0
    /\ failures = 0
    /\ lastChild = NONE
    /\ onlyFailure = TRUE

\* The jitter drawn by random.uniform(-self.jitter, self.jitter), line 188.
JitterDraws == IF jitter > 0 THEN (0 - jitter) .. jitter ELSE {0}

\* RetryNode._calculate_delay when self._attempt is a and the jitter drawn is j.
calculate_delay(a, j) ==
    IF base_delay <= 0
    THEN 0
    ELSE LET delay == IF exponential_backoff
                      THEN base_delay * Pow2(a)
                      ELSE base_delay
         IN  IF jitter > 0
             THEN (IF delay + j > 0 THEN delay + j ELSE 0)
             ELSE delay

\* A call of _tick() begins: a tick after a terminal result, or after a
\* reset, opens a new resolution.
RetryBeginHistory ==
    IF retry_result = "RUNNING"
    THEN UNCHANGED <<waits, invocations, failures, onlyFailure>>
    ELSE /\ waits' = <<>>
         /\ invocations' = 0
         /\ failures' = 0
         /\ onlyFailure' = TRUE

\* RetryNode._tick, lines 194-197 and 212-213, when no child is ticked: there
\* is no child (FAILURE at once), or the while condition is false on entry
\* (the counter is cleared and FAILURE returned).
RetryNoAttempt ==
    /\ retry_pc = "idle"
    /\ ~has_child \/ attempt >= max_attempts
    /\ RetryBeginHistory
    /\ lastChild' = NONE
    /\ attempt' = IF has_child THEN 0 ELSE attempt
    /\ retry_result' = "FAILURE"
    /\ UNCHANGED <<has_child, max_attempts, base_delay, exponential_backoff, jitter,
                   retry_pc>>
    /\ UNCHANGED notRetry

\* RetryNode._tick, lines 194-197: the while loop is entered.
RetryEnter ==
    /\ retry_pc = "idle"
    /\ has_child /\ attempt < max_attempts
    /\ RetryBeginHistory
    /\ lastChild' = NONE
    /\ retry_pc' = "loop"
    /\ UNCHANGED <<has_child, max_attempts, base_delay, exponential_backoff, jitter,
                   attempt, retry_result>>
    /\ UNCHANGED notRetry

\* _tick() returns r.
RetryReturn(r) ==
    /\ retry_result' = r
    /\ retry_pc' = "idle"

\* A child that returns RUNNING uses up an attempt like a failure.
RetryAfterChild_RunningCounts(status, j) ==
    IF status = "SUCCESS"
    THEN /\ attempt' = 0
         /\ RetryReturn("SUCCESS")
         /\ UNCHANGED waits
    ELSE IF status = "RUNNING"
    THEN /\ attempt' = attempt + 1
         /\ RetryReturn("RUNNING")
         /\ UNCHANGED waits
    ELSE LET delay == calculate_delay(attempt + 1, j)
         IN  /\ waits' = IF delay > 0 THEN Append(waits, delay) ELSE waits
             /\ IF attempt + 1 < max_attempts
                THEN /\ attempt' = attempt + 1
                     /\ UNCHANGED <<retry_pc, retry_result>>
                ELSE /\ attempt' = 0
                     /\ RetryReturn("FAILURE")

\* RetryNode._tick, lines 200-213, after `status = await self.child.tick()`:
\* SUCCESS clears the counter and returns; RUNNING returns; any other status
\* increments the counter, then computes the delay from the incremented
\* counter and sleeps it if it is positive, and the while condition is tested
\* again; when it fails the counter is cleared and FAILURE returned.
RetryAfterChild(status, j) ==
    IF status = "SUCCESS"
    THEN /\ attempt' = 0
         /\ RetryReturn("SUCCESS")
         /\ UNCHANGED waits
    ELSE IF status = "RUNNING"
    THEN /\ RetryReturn("RUNNING")
         /\ UNCHANGED <<attempt, waits>>
    ELSE LET delay == calculate_delay(attempt + 1, j)
         IN  /\ waits' = IF delay > 0 THEN Append(waits, delay) ELSE waits
             /\ IF attempt + 1 < max_attempts
                THEN /\ attempt' = attempt + 1
                     /\ UNCHANGED <<retry_pc, retry_result>>
                ELSE /\ attempt' = 0
                     /\ RetryReturn("FAILURE")

\* RetryNode._tick, lines 197-210: one pass of the while loop.  Within one
\* resolution the child returns RUNNING at most MaxRunning times.
RetryAttempt ==
    /\ retry_pc = "loop"
    /\ \E status \in ChildReturns, j \in JitterDraws :
          /\ status = "RUNNING" => invocations - failures < MaxRunning
          /\ lastChild' = status
          /\ invocations' = invocations + 1
          /\ failures' = IF status \in {"SUCCESS", "RUNNING"}
                         THEN failures ELSE failures + 1
          /\ onlyFailure' = (onlyFailure /\ status = "FAILURE")
          /\ RetryAfterChild(status, j)
    /\ UNCHANGED <<has_child, max_attempts, base_delay, exponential_backoff, jitter>>
    /\ UNCHANGED notRetry

\* RetryNode.reset, between two ticks.
RetryReset ==
    /\ retry_pc = "idle"
    /\ retry_result # NONE
    /\ attempt' = 0
    /\ retry_result' = NONE
    /\ lastChild' = NONE
    /\ UNCHANGED <<has_child, max_attempts, base_delay, exponential_backoff, jitter,
                   retry_pc, waits, invocations, failures, onlyFailure>>
    /\ UNCHANGED notRetry

NextRetry ==
    \/ RetryNoAttempt
    \/ RetryEnter
    \/ RetryAttempt
    \/ RetryReset

SpecRetry == InitRetry /\ [][NextRetry]_vars

\* -------------------------------------------------------------------
\* Properties of RetryNode
\* -------------------------------------------------------------------

\* A call of _tick() of a RetryNode with a child has returned.
RetryReturned ==
    /\ retry_pc = "idle"
    /\ retry_result # NONE
    /\ has_child

\* C9 as stated: with max_attempts = N >= 1 the child is invoked at most N
\* times in one resolution, counting the invocations of the ticks that
\* returned RUNNING; FAILURE is returned exactly when the N-th invocation
\* fails, SUCCESS as soon as the child succeeds, and RUNNING is passed on.
C9_RetryBound ==
    (RetryReturned /\ max_attempts >= 1) =>
        /\ invocations <= max_attempts
        /\ retry_result = "FAILURE" <=>
              (invocations = max_attempts /\ lastChild \notin {"SUCCESS", "RUNNING"})
        /\ retry_result = "SUCCESS" <=> lastChild = "SUCCESS"
        /\ retry_result = "RUNNING" <=> lastChild = "RUNNING"

\* C9 as amended: in one resolution at most N invocations return a status
\* other than SUCCESS and RUNNING; invocations that return RUNNING are not
\* counted and consume no attempt; FAILURE is returned exactly when the N-th
\* counted invocation happens, SUCCESS as soon as the child succeeds, and
\* RUNNING is passed on with the attempt counter unchanged.
C9_RetryBoundAmended ==
    /\ has_child => failures <= max_attempts
    /\ (RetryReturned /\ max_attempts >= 1) =>
          /\ retry_result = "FAILURE" <=>
                (failures = max_attempts /\ lastChild \notin {"SUCCESS", "RUNNING"})
          /\ retry_result = "SUCCESS" <=> lastChild = "SUCCESS"
          /\ retry_result = "RUNNING" <=> lastChild = "RUNNING"
          /\ retry_result = "RUNNING" => attempt = failures
          /\ retry_result \in {"SUCCESS", "FAILURE"} => attempt = 0

\* C9 witness: max_attempts = 2; the child failed once, returned RUNNING in
\* two ticks and failed again: four invocations, and FAILURE.
C9_Witness ==
    /\ RetryReturned
    /\ max_attempts = 2
    /\ invocations = 4
    /\ failures = 2
    /\ retry_result = "FAILURE"

\* The waits are d, 2d, 4d, ...: the k-th wait is d * 2 ** (k - 1).
DoublingFrom(d, ws) == \A k \in 1 .. Len(ws) : ws[k] = d * Pow2(k - 1)

\* C10: with delay = d > 0, exponential_backoff and no jitter, over a child
\* that always fails, the waits are d, 2d, 4d, ... and there are
\* max_attempts - 1 of them: none after the last attempt.
C10_DelaySchedule ==
    (/\ RetryReturned
     /\ retry_result = "FAILURE"
     /\ max_attempts >= 1
     /\ base_delay > 0
     /\ exponential_backoff
     /\ jitter = 0
     /\ onlyFailure) =>
        /\ DoublingFrom(base_delay, waits)
        /\ Len(waits) = max_attempts - 1

\* ===================================================================
\* ParallelNode: composites.py
\* ===================================================================

\* The largest number of children of the ParallelNode.
MaxParChildren == 2

\* The largest success_threshold and failure_threshold.
MaxThreshold == 1

\* class ParallelPolicy
ParallelPolicy == {"REQUIRE_ALL", "REQUIRE_ONE", "SEQUENCE_STAR", "SELECTOR_STAR"}

\* The names a child can have.  Siblings with the same name have the same
\* path: get_path() is the parent's path, "/", and the name.
Names == {"a", "b"}

\* Optional[int] = None: the threshold is not given.
NoThreshold == -1

\* Optional[int]: None or a number.
Thresholds == {NoThreshold} \cup (0 .. MaxThreshold)

notPar == <<compVars, nodeVars, retryVars, recVars, moreVars, lateVars>>

\* self.child_status = {}
NoEntries == [n \in Names |-> NONE]

\* ParallelNode.__init__, and add_child for each child.
InitParallel ==
    /\ MoreIdle
    /\ LateIdle
    /\ RecordsIdle
    /\ CompositeIdle
    /\ NodeIdle
    /\ RetryIdle
    /\ policy \in ParallelPolicy
    /\ success_threshold \in Thresholds
    /\ failure_threshold \in Thresholds
    /\ synchronized \in BOOLEAN
    /\ names \in UNION {[1 .. n -> Names] : n \in 0 .. MaxParChildren}
    /\ child_status = NoEntries
    /\ par_pc = "idle"
    /\ pending = {}
    /\ collected = [i \in DOMAIN names |-> NONE]
    /\ par_result = NONE
    /\ reported = {}

\* The number of entries of the dict d with value s.
CountOf(d, s) == Cardinality({n \in Names : d[n] = s})

\* The truth value Python gives an Optional[int]: None and 0 are false.
Truthy(threshold) == threshold # NoThreshold /\ threshold # 0

\* ParallelNode._evaluate_results on the dict d.
evaluate_results(d) ==
    LET success_count == CountOf(d, "SUCCESS")
        failure_count == CountOf(d, "FAILURE")
        running_count == CountOf(d, "RUNNING")
    IN  IF \A n \in Names : d[n] = NONE
        THEN "INVALID"
        ELSE IF Truthy(success_threshold) /\ success_count >= success_threshold
        THEN "SUCCESS"
        ELSE IF Truthy(failure_threshold) /\ failure_count >= failure_threshold
        THEN "FAILURE"
        ELSE IF policy = "REQUIRE_ALL"
        THEN (IF failure_count > 0 THEN "FAILURE"
              ELSE IF running_count > 0 THEN "RUNNING"
              ELSE "SUCCESS")
        ELSE IF policy = "REQUIRE_ONE"
        THEN (IF success_count > 0 THEN "SUCCESS"
              ELSE IF running_count > 0 THEN "RUNNING"
              ELSE "FAILURE")
        ELSE IF policy = "SEQUENCE_STAR"
        THEN (IF running_count > 0 THEN "RUNNING"
              ELSE IF success_count = Len(names) THEN "SUCCESS"
              ELSE "FAILURE")
        ELSE (IF running_count > 0 THEN "RUNNING"
              ELSE IF success_count > 0 THEN "SUCCESS"
              ELSE "FAILURE")

\* ParallelNode._tick, lines 151-167: no children is SUCCESS; otherwise a
\* synchronized node clears child_status, and a task is made for every child
\* that is not synchronized or has no entry.
ParallelEnter ==
    /\ par_pc = "idle"
    /\ collected' = [i \in DOMAIN names |-> NONE]
    /\ reported' = IF par_result = "RUNNING"
                   THEN reported \cup {i \in DOMAIN collected :
                                          collected[i] \in {"SUCCESS", "FAILURE"}}
                   ELSE {}
    /\ IF Len(names) = 0
       THEN /\ par_result' = "SUCCESS"
            /\ UNCHANGED <<child_status, par_pc, pending>>
       ELSE LET cleared == IF synchronized THEN NoEntries ELSE child_status
                tasks == {i \in DOMAIN names :
                             ~synchronized \/ cleared[names[i]] = NONE}
            IN  /\ child_status' = cleared
                /\ pending' = tasks
                /\ IF tasks = {}
                   THEN /\ par_result' = evaluate_results(cleared)
                        /\ UNCHANGED par_pc
                   ELSE /\ par_pc' = "gather"
                        /\ UNCHANGED par_result
    /\ UNCHANGED <<policy, success_threshold, failure_threshold, synchronized, names>>
    /\ UNCHANGED notPar

\* ParallelNode._run_child, lines 174-175, for one of the gathered tasks, in
\* whatever order they finish; after the last one, line 170 evaluates.
ParallelRunChild ==
    /\ par_pc = "gather"
    /\ \E i \in pending, status \in ChildReturns :
          LET entries == [child_status EXCEPT ![names[i]] = status]
          IN  /\ child_status' = entries
              /\ collected' = [collected EXCEPT ![i] = status]
              /\ pending' = pending \ {i}
              /\ IF pending = {i}
                 THEN /\ par_result' = evaluate_results(entries)
                      /\ par_pc' = "idle"
                 ELSE UNCHANGED <<par_result, par_pc>>
    /\ UNCHANGED <<policy, success_threshold, failure_threshold, synchronized, names,
                   reported>>
    /\ UNCHANGED notPar

\* ParallelNode.reset, between two ticks.
ParallelReset ==
    /\ par_pc = "idle"
    /\ par_result # NONE
    /\ child_status' = NoEntries
    /\ par_result' = NONE
    /\ collected' = [i \in DOMAIN names |-> NONE]
    /\ reported' = {}
    /\ UNCHANGED <<policy, success_threshold, failure_threshold, synchronized, names,
                   par_pc, pending>>
    /\ UNCHANGED notPar

NextParallel ==
    \/ ParallelEnter
    \/ ParallelRunChild
    \/ ParallelReset

SpecParallel == InitParallel /\ [][NextParallel]_vars

\* -------------------------------------------------------------------
\* Properties of ParallelNode
\* -------------------------------------------------------------------

\* The number of children that returned s in this tick.
Collected(s) == Cardinality({i \in DOMAIN collected : collected[i] = s})

\* The reduction of section 4.2 over the statuses the children returned.
ReferenceReduction ==
    IF success_threshold # NoThreshold /\ Collected("SUCCESS") >= success_threshold
    THEN "SUCCESS"
    ELSE IF failure_threshold # NoThreshold /\ Collected("FAILURE") >= failure_threshold
    THEN "FAILURE"
    ELSE IF policy = "REQUIRE_ALL"
    THEN (IF Collected("FAILURE") > 0 THEN "FAILURE"
          ELSE IF Collected("RUNNING") > 0 THEN "RUNNING"
          ELSE "SUCCESS")
    ELSE IF policy = "REQUIRE_ONE"
    THEN (IF Collected("SUCCESS") > 0 THEN "SUCCESS"
          ELSE IF Collected("RUNNING") > 0 THEN "RUNNING"
          ELSE "FAILURE")
    ELSE IF policy = "SEQUENCE_STAR"
    THEN (IF Collected("RUNNING") > 0 THEN "RUNNING"
          ELSE IF Collected("SUCCESS") = Len(names) THEN "SUCCESS"
          ELSE "FAILURE")
    ELSE (IF Collected("RUNNING") > 0 THEN "RUNNING"
          ELSE IF Collected("SUCCESS") > 0 THEN "SUCCESS"
          ELSE "FAILURE")

\* C4: the result of a ParallelNode tick is the reference reduction of the
\* statuses its children returned in that tick, whatever the children are
\* named.  Stated for a node with at least one child whose thresholds are
\* unset or positive.
C4_ParallelReduction ==
    (/\ par_pc = "idle"
     /\ par_result # NONE
     /\ Len(names) >= 1
     /\ success_threshold # 0
     /\ failure_threshold # 0) =>
        par_result = ReferenceReduction

\* C22: a synchronized ParallelNode does not tick again a child that returned
\* SUCCESS or FAILURE in an earlier tick of the same resolution.
C22_SynchronizedNoRetick ==
    (par_pc = "idle" /\ par_result # NONE /\ synchronized) =>
        \A i \in reported : collected[i] = NONE

\* ===================================================================
\* RepeatNode: decorators.py
\* ===================================================================

\* num_cycles = -1: repeat without a bound.
Unlimited == -1

\* The largest bounded num_cycles of the RepeatNode.
MaxCycles == 2

\* The largest success_threshold and failure_threshold of the RepeatNode.
MaxRepeatThreshold == 2

\* The largest reset_after of the RepeatNode.
MaxResetAfter == 2

\* The largest _current_cycle the model follows.
MaxRepeatTicks == 3

notRepeat == <<compVars, nodeVars, retryVars, parVars, timeoutNode, cooldownNode,
               actionNode, moreVars, lateVars>>

\* RepeatNode.__init__; an Optional[int] left at None is NoThreshold.
InitRepeat ==
    /\ MoreIdle
    /\ LateIdle
    /\ CompositeIdle
    /\ NodeIdle
    /\ RetryIdle
    /\ ParallelIdle
    /\ timeoutNode = Off
    /\ cooldownNode = Off
    /\ actionNode = Off
    /\ \E c \in BOOLEAN,
          n \in {Unlimited} \cup (0 .. MaxCycles),
          st \in {NoThreshold} \cup (0 .. MaxRepeatThreshold),
          ft \in {NoThreshold} \cup (0 .. MaxRepeatThreshold),
          ra \in {NoThreshold} \cup (0 .. MaxResetAfter) :
          repeatNode = [pc |-> "idle", has_child |-> c, num_cycles |-> n,
                        success_threshold |-> st, failure_threshold |-> ft,
                        reset_after |-> ra, current_cycle |-> 0,
                        success_count |-> 0, failure_count |-> 0,
                        child_status |-> "INVALID", child_reset |-> FALSE,
                        invoked |-> FALSE, runs |-> 0, result |-> NONE]

\* RepeatNode._tick, lines 117-119: `self.reset_after and
\* self._current_cycle % self.reset_after == 0`.
ResetsChild(n) ==
    /\ Truthy(n.reset_after)
    /\ n.current_cycle % n.reset_after = 0

\* RepeatNode._tick, lines 139-142: RUNNING is passed on; otherwise RUNNING
\* when unbounded and the child's status when bounded.
RepeatStatus(n, cycle, status) ==
    IF status = "RUNNING" THEN "RUNNING"
    ELSE IF n.num_cycles = Unlimited THEN "RUNNING" ELSE status

\* RepeatNode._tick, lines 121-142: the child was ticked and returned status.
RepeatAfterChild(n, status) ==
    LET cycle == n.current_cycle + 1
        successes == IF status = "SUCCESS" THEN n.success_count + 1
                     ELSE n.success_count
        failures_ == IF status = "FAILURE" THEN n.failure_count + 1
                     ELSE n.failure_count
        r == IF Truthy(n.success_threshold) /\ successes >= n.success_threshold
             THEN "SUCCESS"
             ELSE IF Truthy(n.failure_threshold) /\ failures_ >= n.failure_threshold
             THEN "FAILURE"
             ELSE RepeatStatus(n, cycle, status)
    IN  [n EXCEPT !.current_cycle = cycle,
                  !.success_count = successes,
                  !.failure_count = failures_,
                  !.child_status = status,
                  !.child_reset = ResetsChild(n),
                  !.invoked = TRUE,
                  !.runs = @ + 1,
                  !.result = r]

\* RepeatNode._tick, lines 108-114, the returns before the child is ticked:
\* no child is FAILURE, a cycle bound already met is SUCCESS.
RepeatNoChildTick ==
    /\ repeatNode.pc = "idle"
    /\ ~repeatNode.has_child
       \/ (repeatNode.num_cycles # Unlimited
           /\ repeatNode.current_cycle >= repeatNode.num_cycles)
    /\ repeatNode' = [repeatNode EXCEPT
                        !.invoked = FALSE,
                        !.child_reset = FALSE,
                        !.result = IF repeatNode.has_child THEN "SUCCESS"
                                   ELSE "FAILURE"]
    /\ UNCHANGED notRepeat

\* RepeatNode._tick, lines 116-142: the child is reset if reset_after says
\* so, ticked, and counted.
RepeatTick ==
    /\ repeatNode.pc = "idle"
    /\ repeatNode.has_child
    /\ repeatNode.num_cycles = Unlimited
       \/ repeatNode.current_cycle < repeatNode.num_cycles
    /\ repeatNode.current_cycle < MaxRepeatTicks
    /\ \E status \in ChildReturns :
          repeatNode' = RepeatAfterChild(repeatNode, status)
    /\ UNCHANGED notRepeat

\* RepeatNode.reset, between two ticks.
RepeatReset ==
    /\ repeatNode.pc = "idle"
    /\ repeatNode.result # NONE
    /\ repeatNode' = [repeatNode EXCEPT
                        !.current_cycle = 0,
                        !.success_count = 0,
                        !.failure_count = 0,
                        !.child_status = IF repeatNode.has_child THEN "INVALID" ELSE @,
                        !.child_reset = FALSE,
                        !.invoked = FALSE,
                        !.runs = 0,
                        !.result = NONE]
    /\ UNCHANGED notRepeat

NextRepeat ==
    \/ RepeatNoChildTick
    \/ RepeatTick
    \/ RepeatReset

SpecRepeat == InitRepeat /\ [][NextRepeat]_vars

\* -------------------------------------------------------------------
\* Properties of RepeatNode
\* -------------------------------------------------------------------

\* A call of _tick() of a RepeatNode with a child has returned.
RepeatReturned ==
    /\ repeatNode.pc = "idle"
    /\ repeatNode.has_child
    /\ repeatNode.result # NONE

\* C11: when a RepeatNode or RetryNode tick returns SUCCESS or FAILURE, its
\* counters (_current_cycle, _success_count, _failure_count; _attempt) are 0
\* afterwards.
C11_CountersResetOnExit ==
    /\ (RepeatReturned /\ repeatNode.result \in {"SUCCESS", "FAILURE"}) =>
          /\ repeatNode.current_cycle = 0
          /\ repeatNode.success_count = 0
          /\ repeatNode.failure_count = 0
    /\ (RetryReturned /\ retry_result \in {"SUCCESS", "FAILURE"}) => attempt = 0

\* C12: a RepeatNode with num_cycles = n >= 1 and no thresholds returns
\* RUNNING on every tick until the child has been run n times, and the child
\* is never run more than n times in one resolution.
C12_RepeatUntilBound ==
    (/\ RepeatReturned
     /\ repeatNode.num_cycles >= 1
     /\ repeatNode.success_threshold = NoThreshold
     /\ repeatNode.failure_threshold = NoThreshold) =>
        /\ repeatNode.runs < repeatNode.num_cycles => repeatNode.result = "RUNNING"
        /\ repeatNode.runs <= repeatNode.num_cycles

\* ===================================================================
\* TimeoutNode: decorators.py
\* ===================================================================

\* What the in-flight tick() of the child does with the CancelledError that
\* wait_for sends it: BehaviorNode.tick lets it pass (`except Exception`,
\* node.py line 207, does not catch it), while an ActionNode awaiting its
\* callback catches it (leaves.py lines 106-107) and goes on to return FAILURE.
ChildOnCancel == {"propagates", "swallows"}

notTimeout == <<compVars, nodeVars, retryVars, parVars, repeatNode, cooldownNode,
                actionNode, moreVars, lateVars>>

\* TimeoutNode.__init__
InitTimeout ==
    /\ MoreIdle
    /\ LateIdle
    /\ CompositeIdle
    /\ NodeIdle
    /\ RetryIdle
    /\ ParallelIdle
    /\ repeatNode = Off
    /\ cooldownNode = Off
    /\ actionNode = Off
    /\ \E c \in BOOLEAN, o \in Status, k \in ChildOnCancel :
          timeoutNode = [pc |-> "idle", has_child |-> c, on_timeout |-> o,
                         on_cancel |-> k, task |-> "none", task_result |-> NONE,
                         expired |-> FALSE, ran_on |-> FALSE, ticks |-> 0,
                         result |-> NONE]

\* The largest number of ticks of the TimeoutNode the model follows.
MaxTimeoutTicks == 2

\* TimeoutNode._tick, lines 243-244: no child.
TimeoutNoChild ==
    /\ timeoutNode.pc = "idle"
    /\ ~timeoutNode.has_child
    /\ timeoutNode.ticks < MaxTimeoutTicks
    /\ timeoutNode' = [timeoutNode EXCEPT !.result = "FAILURE", !.ticks = @ + 1]
    /\ UNCHANGED notTimeout

\* TimeoutNode._tick, lines 248-249: the task of child.tick() is created and
\* wait_for awaits it.
TimeoutEnter ==
    /\ timeoutNode.pc = "idle"
    /\ timeoutNode.has_child
    /\ timeoutNode.ticks < MaxTimeoutTicks
    /\ timeoutNode' = [timeoutNode EXCEPT !.pc = "wait_for",
                                          !.task = "pending",
                                          !.task_result = NONE,
                                          !.expired = FALSE,
                                          !.ran_on = FALSE,
                                          !.ticks = @ + 1]
    /\ UNCHANGED notTimeout

\* Lines 249-250: the child's tick completes before the timeout.
TimeoutChildCompletes ==
    /\ timeoutNode.pc = "wait_for"
    /\ \E status \in ChildReturns :
          timeoutNode' = [timeoutNode EXCEPT !.pc = "idle",
                                             !.task = "done",
                                             !.task_result = status,
                                             !.result = status]
    /\ UNCHANGED notTimeout

\* Lines 249 and 253-257: the timeout expires first.  wait_for cancels the
\* task and waits for it to end.  A task that ends cancelled makes wait_for
\* raise TimeoutError, and on_timeout is returned; a task that ends with a
\* result makes wait_for return that result, and line 250 returns it.
TimeoutExpires ==
    /\ timeoutNode.pc = "wait_for"
    /\ timeoutNode' =
          IF timeoutNode.on_cancel = "propagates"
          THEN [timeoutNode EXCEPT !.pc = "idle",
                                   !.expired = TRUE,
                                   !.task = "cancelled",
                                   !.result = timeoutNode.on_timeout]
          ELSE [timeoutNode EXCEPT !.pc = "idle",
                                   !.expired = TRUE,
                                   !.task = "done",
                                   !.ran_on = TRUE,
                                   !.task_result = "FAILURE",
                                   !.result = "FAILURE"]
    /\ UNCHANGED notTimeout

NextTimeout ==
    \/ TimeoutNoChild
    \/ TimeoutEnter
    \/ TimeoutChildCompletes
    \/ TimeoutExpires

SpecTimeout == InitTimeout /\ [][NextTimeout]_vars

\* -------------------------------------------------------------------
\* Properties of TimeoutNode
\* -------------------------------------------------------------------

\* A call of _tick() of a TimeoutNode with a child has returned.
TimeoutReturned ==
    /\ timeoutNode.pc = "idle"
    /\ timeoutNode.has_child
    /\ timeoutNode.result # NONE

\* C13: if the timeout expires before the child's tick completes, the tick
\* returns on_timeout and the child's tick is cancelled and runs no further;
\* if the child completes first, its status is returned unchanged.
C13_TimeoutCancelsChild ==
    TimeoutReturned =>
        IF timeoutNode.expired
        THEN /\ timeoutNode.result = timeoutNode.on_timeout
             /\ timeoutNode.task = "cancelled"
             /\ ~timeoutNode.ran_on
        ELSE /\ timeoutNode.task = "done"
             /\ timeoutNode.result = timeoutNode.task_result

\* ===================================================================
\* CooldownNode: decorators.py
\* ===================================================================

\* The largest cooldown of the CooldownNode, in clock units.
MaxCooldown == 2

\* The largest reading of the clock (time.time()) the model follows.
MaxTime == 3

\* The longest a tick of the child takes, in clock units.
MaxChildTime == 1

\* _last_success_time is None.
NoTime == -1

notCooldown == <<compVars, nodeVars, retryVars, parVars, repeatNode, timeoutNode,
                 actionNode, moreVars, lateVars>>

\* CooldownNode.__init__; the clock starts at 0.
InitCooldown ==
    /\ MoreIdle
    /\ LateIdle
    /\ CompositeIdle
    /\ NodeIdle
    /\ RetryIdle
    /\ ParallelIdle
    /\ repeatNode = Off
    /\ timeoutNode = Off
    /\ actionNode = Off
    /\ \E c \in BOOLEAN, cd \in 0 .. MaxCooldown, rf \in BOOLEAN :
          cooldownNode = [pc |-> "idle", has_child |-> c, cooldown |-> cd,
                          reset_on_failure |-> rf, last_success_time |-> NoTime,
                          now |-> 0,
                          \* history, kept for the properties
                          succeeded_at |-> NoTime, since |-> NoTime, tick_at |-> 0,
                          invoked |-> FALSE, child_returned |-> NONE,
                          result |-> NONE]

\* The test of line 379 with <= for <.
InCooldown_Inclusive(elapsed, cd) == elapsed <= cd

\* CooldownNode._tick, line 379: `elapsed < self.cooldown`.
InCooldown(elapsed, cd) == elapsed < cd

\* CooldownNode._tick, lines 373-380, the returns before the child is ticked:
\* no child, or a success less than cooldown ago.
CooldownRefuses ==
    /\ cooldownNode.pc = "idle"
    /\ ~cooldownNode.has_child
       \/ (cooldownNode.last_success_time # NoTime
           /\ InCooldown(cooldownNode.now - cooldownNode.last_success_time,
                         cooldownNode.cooldown))
    /\ cooldownNode' = [cooldownNode EXCEPT
                          !.since = cooldownNode.succeeded_at,
                          !.tick_at = cooldownNode.now,
                          !.invoked = FALSE,
                          !.child_returned = NONE,
                          !.result = "FAILURE"]
    /\ UNCHANGED notCooldown

\* CooldownNode._tick, lines 382-389: the child is ticked, which takes d
\* clock units; a SUCCESS records the time, a FAILURE clears it if
\* reset_on_failure, and the child's status is returned.
CooldownTick ==
    /\ cooldownNode.pc = "idle"
    /\ cooldownNode.has_child
    /\ cooldownNode.last_success_time = NoTime
       \/ ~InCooldown(cooldownNode.now - cooldownNode.last_success_time,
                      cooldownNode.cooldown)
    /\ \E status \in ChildReturns, d \in 0 .. MaxChildTime :
          /\ cooldownNode.now + d <= MaxTime
          /\ cooldownNode' = [cooldownNode EXCEPT
                !.now = @ + d,
                !.last_success_time =
                    IF status = "SUCCESS" THEN cooldownNode.now + d
                    ELSE IF status = "FAILURE" /\ cooldownNode.reset_on_failure
                    THEN NoTime
                    ELSE @,
                !.succeeded_at = IF status = "SUCCESS" THEN cooldownNode.now + d ELSE @,
                !.since = cooldownNode.succeeded_at,
                !.tick_at = cooldownNode.now,
                !.invoked = TRUE,
                !.child_returned = status,
                !.result = status]
    /\ UNCHANGED notCooldown

\* Time passes between two ticks.
CooldownClock ==
    /\ cooldownNode.pc = "idle"
    /\ cooldownNode.now < MaxTime
    /\ cooldownNode' = [cooldownNode EXCEPT !.now = @ + 1]
    /\ UNCHANGED notCooldown

\* CooldownNode.reset, between two ticks.
CooldownReset ==
    /\ cooldownNode.pc = "idle"
    /\ cooldownNode.result # NONE
    /\ cooldownNode' = [cooldownNode EXCEPT
                          !.last_success_time = NoTime,
                          !.succeeded_at = NoTime,
                          !.since = NoTime,
                          !.invoked = FALSE,
                          !.child_returned = NONE,
                          !.result = NONE]
    /\ UNCHANGED notCooldown

NextCooldown ==
    \/ CooldownRefuses
    \/ CooldownTick
    \/ CooldownClock
    \/ CooldownReset

SpecCooldown == InitCooldown /\ [][NextCooldown]_vars

\* -------------------------------------------------------------------
\* Properties of CooldownNode
\* -------------------------------------------------------------------

\* A tick of a CooldownNode with a child has returned, and before that tick
\* began the child had returned SUCCESS, last at time `since`.
CooldownReturnedAfterSuccess ==
    /\ cooldownNode.pc = "idle"
    /\ cooldownNode.has_child
    /\ cooldownNode.result # NONE
    /\ cooldownNode.since # NoTime

\* C15: after the child returned SUCCESS at time T, a tick at a time earlier
\* than T + cooldown returns FAILURE without invoking the child, and a tick at
\* or after T + cooldown invokes the child and returns its status.
C15_Cooldown ==
    CooldownReturnedAfterSuccess =>
        IF cooldownNode.tick_at < cooldownNode.since + cooldownNode.cooldown
        THEN /\ ~cooldownNode.invoked
             /\ cooldownNode.result = "FAILURE"
        ELSE /\ cooldownNode.invoked
             /\ cooldownNode.result = cooldownNode.child_returned

\* C15 witness: a tick exactly cooldown >= 1 after the success invokes the
\* child, which is still running.
C15_Witness ==
    /\ CooldownReturnedAfterSuccess
    /\ cooldownNode.cooldown >= 1
    /\ cooldownNode.tick_at = cooldownNode.since + cooldownNode.cooldown
    /\ cooldownNode.invoked
    /\ cooldownNode.result = "RUNNING"

\* ===================================================================
\* ActionNode: leaves.py
\* ===================================================================

\* The largest retry_count of the ActionNode.
MaxRetryCount == 2

\* class ActionResult
ActionResults ==
    {"ActionResult.SUCCESS", "ActionResult.FAILURE", "ActionResult.RUNNING",
     "ActionResult.ERROR", "ActionResult.CANCELLED"}

\* What a callback can return: an ActionResult, a bool, None, or a value of
\* another type.
CallbackValues == ActionResults \cup {"True", "False", "None", "other"}

\* What one call of the callback does: it returns a value, raises an
\* Exception, is cancelled while awaited, or is cut off by self.timeout.
CallbackOutcomes == CallbackValues \cup {"Exception", "CancelledError", "timeout"}

\* action_result_to_status
action_result_to_status(r) ==
    IF r \in ActionResults
    THEN (IF r = "ActionResult.SUCCESS" THEN "SUCCESS"
          ELSE IF r = "ActionResult.RUNNING" THEN "RUNNING"
          ELSE "FAILURE")
    ELSE IF r \in {"True", "False"}
    THEN (IF r = "True" THEN "SUCCESS" ELSE "FAILURE")
    ELSE IF r = "None" THEN "SUCCESS"
    ELSE "FAILURE"

\* ActionNode._execute_action: what it returns when the callback does o.  A
\* value that is no ActionResult, bool or None becomes ActionResult.SUCCESS
\* (line 104).  The cancellation that asyncio.timeout sends on expiry arrives
\* inside _execute_action as a CancelledError and is caught at line 106 like
\* any other.
execute_action(n, o) ==
    IF ~n.has_func THEN "ActionResult.SUCCESS"
    ELSE IF o \in ActionResults \cup {"True", "False", "None"} THEN o
    ELSE IF o = "other" THEN "ActionResult.SUCCESS"
    ELSE IF o \in {"CancelledError", "timeout"} THEN "ActionResult.CANCELLED"
    ELSE IF n.ignore_errors THEN "ActionResult.SUCCESS"
    ELSE "ActionResult.ERROR"

notAction == <<compVars, nodeVars, retryVars, parVars, repeatNode, timeoutNode,
               cooldownNode, moreVars, lateVars>>

\* ActionNode.__init__
InitAction ==
    /\ MoreIdle
    /\ LateIdle
    /\ CompositeIdle
    /\ NodeIdle
    /\ RetryIdle
    /\ ParallelIdle
    /\ repeatNode = Off
    /\ timeoutNode = Off
    /\ cooldownNode = Off
    /\ \E f \in BOOLEAN, t \in BOOLEAN, k \in 0 .. MaxRetryCount, ie \in BOOLEAN :
          actionNode = [pc |-> "idle", has_func |-> f, has_timeout |-> t,
                        retry_count |-> k, ignore_errors |-> ie,
                        current_retry |-> 0, cancel_requested |-> FALSE,
                        is_running |-> FALSE,
                        \* history, kept for the properties
                        invocations |-> 0, did |-> NONE, last_result |-> NONE,
                        result |-> NONE]

\* ActionNode.request_cancel, between two ticks.
RequestCancel ==
    /\ actionNode.pc = "idle"
    /\ ~actionNode.cancel_requested
    /\ actionNode' = [actionNode EXCEPT !.cancel_requested = TRUE]
    /\ UNCHANGED notAction

\* ActionNode._tick, lines 117-119: a requested cancel is consumed and the
\* tick returns FAILURE without calling the callback.
ActionCancelled ==
    /\ actionNode.pc = "idle"
    /\ actionNode.cancel_requested
    /\ actionNode' = [actionNode EXCEPT !.cancel_requested = FALSE,
                                        !.invocations = 0,
                                        !.did = NONE,
                                        !.last_result = NONE,
                                        !.result = "FAILURE"]
    /\ UNCHANGED notAction

\* ActionNode._tick, lines 121-125: the retry loop is entered.
ActionEnter ==
    /\ actionNode.pc = "idle"
    /\ ~actionNode.cancel_requested
    /\ actionNode' = [actionNode EXCEPT !.pc = "loop",
                                        !.is_running = TRUE,
                                        !.invocations = 0,
                                        !.did = NONE,
                                        !.last_result = NONE,
                                        !.result = NONE]
    /\ UNCHANGED notAction

\* ActionNode._tick, lines 161-162: `result == ActionResult.FAILURE and
\* self._current_retry < self.retry_count`.
Retries(n, r) ==
    /\ r = "ActionResult.FAILURE"
    /\ n.current_retry < n.retry_count

\* ActionNode._tick, lines 126-172, one pass of the loop: the callback is
\* called and does o; SUCCESS and RUNNING return, a FAILURE with retries left
\* goes round again, anything else returns; the finally clause clears
\* _is_running and _current_retry on the way out.
ActionInvoke ==
    /\ actionNode.pc = "loop"
    /\ \E o \in CallbackOutcomes :
          LET r == execute_action(actionNode, o)
              n == [actionNode EXCEPT !.invocations = @ + 1,
                                      !.did = IF actionNode.has_func THEN o ELSE NONE,
                                      !.last_result = r]
          IN  /\ o = "timeout" => actionNode.has_timeout
              /\ ~actionNode.has_func => o = "None"
              /\ actionNode' =
                    IF r \notin {"ActionResult.SUCCESS", "ActionResult.RUNNING"}
                       /\ Retries(actionNode, r)
                    THEN [n EXCEPT !.current_retry = @ + 1]
                    ELSE [n EXCEPT !.pc = "idle",
                                   !.is_running = FALSE,
                                   !.current_retry = 0,
                                   !.result = action_result_to_status(r)]
    /\ UNCHANGED notAction

\* ActionNode.reset, between two ticks.
ActionReset ==
    /\ actionNode.pc = "idle"
    /\ actionNode.result # NONE
    /\ actionNode' = [actionNode EXCEPT !.current_retry = 0,
                                        !.cancel_requested = FALSE,
                                        !.invocations = 0,
                                        !.did = NONE,
                                        !.last_result = NONE,
                                        !.result = NONE]
    /\ UNCHANGED notAction

NextAction ==
    \/ RequestCancel
    \/ ActionCancelled
    \/ ActionEnter
    \/ ActionInvoke
    \/ ActionReset

SpecAction == InitAction /\ [][NextAction]_vars

\* -------------------------------------------------------------------
\* Properties of ActionNode
\* -------------------------------------------------------------------

\* A tick of an ActionNode that called its callback has returned.
ActionReturned ==
    /\ actionNode.pc = "idle"
    /\ actionNode.result # NONE
    /\ actionNode.invocations >= 1
    /\ actionNode.has_func

\* The status section 4.4 gives to a callback's return value.
StatusOfValue(v) ==
    IF v \in {"ActionResult.SUCCESS", "True", "None"} THEN "SUCCESS"
    ELSE IF v = "ActionResult.RUNNING" THEN "RUNNING"
    ELSE "FAILURE"

\* C19: the status of an ActionNode tick is the one its callback's return
\* value maps to: ActionResult SUCCESS/FAILURE/RUNNING to the same status,
\* ERROR and CANCELLED to FAILURE, true to SUCCESS, false to FAILURE, None to
\* SUCCESS, any other value to FAILURE.
C19_ActionResultMapping ==
    (ActionReturned /\ actionNode.did \in CallbackValues) =>
        actionNode.result = StatusOfValue(actionNode.did)

\* C20: with retry_count = k a failing callback (ActionResult.FAILURE or
\* false) is called again until it stops failing or k retries are used, at
\* most k + 1 calls in one tick; RUNNING is returned at once; the retry
\* counter is 0 when the tick returns.
C20_ActionRetry ==
    ActionReturned =>
        /\ actionNode.invocations <= actionNode.retry_count + 1
        /\ actionNode.current_retry = 0
        /\ actionNode.did \in {"ActionResult.FAILURE", "False"} =>
              actionNode.invocations = actionNode.retry_count + 1
        /\ actionNode.did = "ActionResult.RUNNING" => actionNode.result = "RUNNING"

\* ===================================================================
\* BlackboardConditionNode (nodes/decorators.py)
\* ===================================================================

\* The largest value stored in the blackboard or configured on the node.
MaxGateValue == 1

\* None, as a configured value and as what Blackboard.get returns for a
\* missing key.
NoValue == -1

GateValues == 0 .. MaxGateValue

\* The keys of the operators dict of _check_condition.
GateOperators == {"==", "!=", ">", "<", ">=", "<="}

\* The operator argument is any string: one that is not in the dict too.
OperatorArguments == GateOperators \cup {"~"}

GateNamespaces == {"default", "other"}

notGate == <<compVars, nodeVars, retryVars, parVars, recVars, manager, blackboard, lateVars>>

\* `value or properties.get('value')` of the constructor: a falsy value
\* argument (None, 0) gives way to the property, None when there is none.
GateValue(value, property) == IF value # NoValue /\ value # 0 THEN value ELSE property

\* operators[self.operator](bb_value, self.value): a Python comparison of an
\* integer with an integer or with None, where ordering against None raises
\* TypeError.
Compare(op, x, y) ==
    IF y = NoValue
    THEN CASE op = "==" -> "false"
           [] op = "!=" -> "true"
           [] OTHER -> "raise"
    ELSE LET holds == CASE op = "==" -> x = y
                        [] op = "!=" -> x # y
                        [] op = ">" -> x > y
                        [] op = "<" -> x < y
                        [] op = ">=" -> x >= y
                        [] op = "<=" -> x <= y
         IN  IF holds THEN "true" ELSE "false"

\* BlackboardConditionNode._check_condition.
check_condition(op, bb_value, value) ==
    IF bb_value = NoValue THEN "false"
    ELSE IF op \notin GateOperators THEN "raise"
    ELSE Compare(op, bb_value, value)

\* The node as constructed, attached or not to a child and to a blackboard
\* that was just constructed: only the "default" namespace exists, no key is
\* stored.
InitGate ==
    /\ CompositeIdle
    /\ NodeIdle
    /\ RetryIdle
    /\ ParallelIdle
    /\ RecordsIdle
    /\ manager = Off
    /\ blackboard = Off
    /\ LateIdle
    /\ \E child \in BOOLEAN, bb \in BOOLEAN,
          operator \in OperatorArguments,
          value \in GateValues \cup {NoValue}, property \in GateValues \cup {NoValue},
          namespace \in GateNamespaces :
          gateNode = [pc |-> "idle",
                      has_child |-> child,
                      has_blackboard |-> bb,
                      operator |-> operator,
                      value |-> GateValue(value, property),
                      namespace |-> namespace,
                      namespace_exists |-> (namespace = "default"),
                      stored |-> NoValue,
                      \* history: what the last tick found and did
                      seen_namespace |-> FALSE,
                      seen |-> NoValue,
                      child_ticks |-> 0,
                      result |-> NONE]

\* BehaviorNode.tick around BlackboardConditionNode._tick: Blackboard.get
\* raises KeyError for a namespace that does not exist and returns None for a
\* key that is not stored; what _tick raises, tick() returns as ERROR.
GateTick ==
    /\ gateNode.pc = "idle"
    /\ LET g == [gateNode EXCEPT !.seen_namespace = gateNode.namespace_exists,
                                 !.seen = gateNode.stored,
                                 !.child_ticks = 0]
           condition == check_condition(gateNode.operator, gateNode.stored, gateNode.value)
       IN  IF ~gateNode.has_child \/ ~gateNode.has_blackboard
           THEN gateNode' = [g EXCEPT !.result = "FAILURE"]
           ELSE IF ~gateNode.namespace_exists
           THEN gateNode' = [g EXCEPT !.result = "ERROR"]
           ELSE IF condition = "raise"
           THEN gateNode' = [g EXCEPT !.result = "ERROR"]
           ELSE IF condition = "false"
           THEN gateNode' = [g EXCEPT !.result = "FAILURE"]
           ELSE \E status \in ChildReturns :
                   gateNode' = [g EXCEPT !.child_ticks = 1, !.result = status]
    /\ UNCHANGED notGate

\* Blackboard.set(key, v, namespace) between two ticks: creates the namespace
\* when it is missing and stores the value.
GateSet ==
    /\ gateNode.pc = "idle"
    /\ gateNode.has_blackboard
    /\ \E v \in GateValues :
          gateNode' = [gateNode EXCEPT !.namespace_exists = TRUE, !.stored = v]
    /\ UNCHANGED notGate

\* Blackboard.unset(key, namespace) between two ticks.
GateUnset ==
    /\ gateNode.pc = "idle"
    /\ gateNode.has_blackboard
    /\ gateNode.namespace_exists
    /\ gateNode' = [gateNode EXCEPT !.stored = NoValue]
    /\ UNCHANGED notGate

NextGate ==
    \/ GateTick
    \/ GateSet
    \/ GateUnset

SpecGate == InitGate /\ [][NextGate]_vars

\* -------------------------------------------------------------------
\* Properties of BlackboardConditionNode
\* -------------------------------------------------------------------

\* The comparison of the value the last tick found at (namespace, key) with
\* the configured value holds; it does not when the key is missing.
GateHolds ==
    /\ gateNode.seen_namespace
    /\ gateNode.seen # NoValue
    /\ Compare(gateNode.operator, gateNode.seen, gateNode.value) = "true"

\* C21: BlackboardConditionNode ticks its child, exactly once, only when
\* the comparison of the blackboard value with the configured value holds;
\* otherwise, also when the key is missing, the tick returns FAILURE and the
\* child is not ticked. Stated for one of the six operators and a configured
\* value that is not None.
C21_BlackboardGate ==
    (/\ gateNode.pc = "idle"
     /\ gateNode.result # NONE
     /\ gateNode.operator \in GateOperators
     /\ gateNode.value # NoValue) =>
        /\ gateNode.child_ticks <= 1
        /\ gateNode.child_ticks = 1 => GateHolds
        /\ ~GateHolds => (gateNode.result = "FAILURE" /\ gateNode.child_ticks = 0)

\* ===================================================================
\* BehaviorTreeManager (core/tree_manager.py)
\* ===================================================================

\* The most root ticks one behaviour starts.
MaxManagerTicks == 2

\* The largest snapshot_interval.
MaxInterval == 2

\* What root.tick() returns to the manager.
RootReturns == {"SUCCESS", "FAILURE", "RUNNING", "ERROR"}

\* The namespaces of the manager's blackboard: Blackboard() creates
\* "default" and no operation removes a namespace.
ManagerNamespaces == {"default"}

\* Blackboard defines no get_keys method.
get_keys_defined == FALSE

notManager == <<compVars, nodeVars, retryVars, parVars, recVars, gateNode, blackboard, lateVars>>

\* The execution context and the root, as a tick_tree() call finds them.
Context(m) ==
    [total_ticks |-> m.total_ticks,
     success_count |-> m.success_count,
     failure_count |-> m.failure_count,
     error_count |-> m.error_count,
     snapshots |-> m.snapshots,
     root_status |-> m.root_status,
     root_ticks |-> m.root_ticks,
     root_setup |-> m.root_setup]

\* The record of a call that is not tick_tree().
Called(op, m) ==
    [op |-> op, paused |-> FALSE, raised |-> FALSE, ret |-> NONE, before |-> Context(m)]

\* BehaviorTreeManager.__init__, with or without a root assigned and
\* initialized afterwards.
InitManager ==
    /\ CompositeIdle
    /\ NodeIdle
    /\ RetryIdle
    /\ ParallelIdle
    /\ RecordsIdle
    /\ gateNode = Off
    /\ blackboard = Off
    /\ LateIdle
    /\ \E root \in BOOLEAN, snapshots \in BOOLEAN, interval \in 1 .. MaxInterval :
          LET m == [total_ticks |-> 0,
                    success_count |-> 0,
                    failure_count |-> 0,
                    error_count |-> 0,
                    snapshots |-> 0,
                    root_status |-> "INVALID",
                    root_setup |-> FALSE,
                    root_ticks |-> 0]
          IN  manager = [pc |-> "idle",
                         has_root |-> root,
                         enable_snapshots |-> snapshots,
                         snapshot_interval |-> interval,
                         running |-> FALSE,
                         paused |-> FALSE,
                         total_ticks |-> 0,
                         success_count |-> 0,
                         failure_count |-> 0,
                         error_count |-> 0,
                         snapshots |-> 0,
                         root_status |-> "INVALID",
                         root_setup |-> FALSE,
                         \* history: the times root.tick() was called, stop()
                         \* was called since run() set running, the finally
                         \* clause of run() began, and the last call
                         root_ticks |-> 0,
                         stop_called |-> FALSE,
                         shutdown_awaited |-> FALSE,
                         last |-> Called("init", m)]

\* TreeSnapshot.__init__: after the node states, the loop over the
\* namespaces of the blackboard calls blackboard.get_keys(namespace).
TreeSnapshotRaises == ManagerNamespaces # {} /\ ~get_keys_defined

\* tick_tree() on a paused manager, lines 98-99, counting the tick too.
PausedTickTree_Counts(m) ==
    [m EXCEPT !.total_ticks = @ + 1,
              !.last = [op |-> "tick_tree", paused |-> TRUE, raised |-> FALSE,
                        ret |-> m.root_status, before |-> Context(m)]]

\* tick_tree() on a paused manager, lines 98-99: `return self.root.status`.
PausedTickTree(m) ==
    [m EXCEPT !.last = [op |-> "tick_tree", paused |-> TRUE, raised |-> FALSE,
                        ret |-> m.root_status, before |-> Context(m)]]

\* tick_tree() up to `await self.root.tick()`, line 104; the tick sets the
\* root up when it is not.
StartRootTick(m, at) ==
    [m EXCEPT !.pc = at,
              !.root_ticks = @ + 1,
              !.root_setup = TRUE,
              !.last = [op |-> "tick_tree", paused |-> FALSE, raised |-> FALSE,
                        ret |-> NONE, before |-> Context(m)]]

\* tick_tree() after root.tick() returned status, lines 106-127, and the
\* except clause, 129-132, when take_snapshot() raises.
AfterRootTick(m, status, at) ==
    LET counted == [m EXCEPT !.pc = at,
                             !.root_status = status,
                             !.total_ticks = @ + 1,
                             !.success_count = IF status = "SUCCESS" THEN @ + 1 ELSE @,
                             !.failure_count = IF status = "FAILURE" THEN @ + 1 ELSE @,
                             !.error_count = IF status = "ERROR" THEN @ + 1 ELSE @]
        snapshot == /\ m.enable_snapshots
                    /\ counted.total_ticks % m.snapshot_interval = 0
    IN  IF snapshot /\ TreeSnapshotRaises
        THEN [counted EXCEPT !.error_count = @ + 1,
                             !.last.raised = TRUE,
                             !.last.ret = "ERROR"]
        ELSE IF snapshot
        THEN [counted EXCEPT !.snapshots = @ + 1, !.last.ret = status]
        ELSE [counted EXCEPT !.last.ret = status]

\* tick_tree() called directly, before run(): returns at once without a
\* root or when paused, otherwise awaits root.tick().
TickTreeCall ==
    /\ manager.pc = "idle"
    /\ IF ~manager.has_root
       THEN manager' = [manager EXCEPT !.last = [Called("tick_tree", manager)
                                                    EXCEPT !.ret = "INVALID"]]
       ELSE IF manager.paused
       THEN manager' = PausedTickTree(manager)
       ELSE /\ manager.root_ticks < MaxManagerTicks
            /\ manager' = StartRootTick(manager, "direct")
    /\ UNCHANGED notManager

\* root.tick() returns to the tick_tree() that was called directly.
TickTreeReturn ==
    /\ manager.pc = "direct"
    /\ \E status \in RootReturns :
          manager' = AfterRootTick(manager, status, "idle")
    /\ UNCHANGED notManager

\* take_snapshot() called directly, lines 191-195: the constructor of
\* TreeSnapshot raises before anything is appended.
TakeSnapshot ==
    /\ manager.pc \in {"idle", "returned", "raised"}
    /\ manager' = IF TreeSnapshotRaises
                  THEN [manager EXCEPT !.last = [Called("take_snapshot", manager)
                                                    EXCEPT !.raised = TRUE]]
                  ELSE [manager EXCEPT !.snapshots = @ + 1,
                                       !.last = Called("take_snapshot", manager)]
    /\ UNCHANGED notManager

\* pause(), from another task, at any point where the loop is suspended.
Pause ==
    /\ ~manager.paused
    /\ manager' = [manager EXCEPT !.paused = TRUE, !.last = Called("pause", manager)]
    /\ UNCHANGED notManager

\* resume()
Resume ==
    /\ manager.paused
    /\ manager' = [manager EXCEPT !.paused = FALSE, !.last = Called("resume", manager)]
    /\ UNCHANGED notManager

\* run() is between `self.running = True` and its return.
RunActive(m) == m.pc \in {"setup", "tick", "sleep", "shutdown"}

\* stop(), likewise.
Stop ==
    /\ ~manager.stop_called
    /\ manager' = [manager EXCEPT !.running = FALSE,
                                  !.stop_called = RunActive(manager),
                                  !.last = Called("stop", manager)]
    /\ UNCHANGED notManager

\* run() up to `await self.root.setup()`, lines 137-150; tick_rate is
\* positive.
RunStart ==
    /\ manager.pc = "idle"
    /\ manager' = IF ~manager.has_root
                  THEN [manager EXCEPT !.pc = "returned",
                                       !.last = Called("run", manager)]
                  ELSE [manager EXCEPT !.pc = "setup",
                                       !.running = TRUE,
                                       !.stop_called = FALSE,
                                       !.last = Called("run", manager)]
    /\ UNCHANGED notManager

\* The loop may go on: the bound on root ticks is not met.
CanLoop(m) == ~m.running \/ m.paused \/ m.root_ticks < MaxManagerTicks

\* The finally clause of run() without line 174.
RunFinally_KeepsRunning(m) ==
    [m EXCEPT !.pc = "returned",
              !.root_setup = FALSE,
              !.last = Called("run", m)]

\* The finally clause of run() after root.shutdown() returned, lines
\* 171-174: `self.running = False`, and run() returns.
RunFinally(m) ==
    [m EXCEPT !.pc = "returned",
              !.root_setup = FALSE,
              !.running = FALSE,
              !.last = Called("run", m)]

\* `while self.running:` and the call of tick_tree() up to its first
\* suspension, lines 152-155; the finally clause begins when running is
\* false.
LoopHead(m) ==
    IF ~m.running
    THEN [m EXCEPT !.pc = "shutdown",
                   !.shutdown_awaited = TRUE,
                   !.last = Called("run", m)]
    ELSE IF m.paused THEN [PausedTickTree(m) EXCEPT !.pc = "sleep"]
    ELSE StartRootTick(m, "tick")

\* root.setup() returns, line 150, and the loop begins.
RunSetupDone ==
    /\ manager.pc = "setup"
    /\ CanLoop(manager)
    /\ manager' = LoopHead([manager EXCEPT !.root_setup = TRUE])
    /\ UNCHANGED notManager

\* root.tick() returns to the tick_tree() of the loop, which then sleeps
\* the rest of the interval, lines 155-161.
RunTickDone ==
    /\ manager.pc = "tick"
    /\ \E status \in RootReturns :
          manager' = AfterRootTick(manager, status, "sleep")
    /\ UNCHANGED notManager

\* asyncio.sleep returns and the loop tests running again.
RunSleepDone ==
    /\ manager.pc = "sleep"
    /\ CanLoop(manager)
    /\ manager' = LoopHead(manager)
    /\ UNCHANGED notManager

\* The task of run() is cancelled while it awaits setup, the tick or the
\* sleep: `except asyncio.CancelledError`, then the finally clause, lines
\* 167-174.
RunCancelled ==
    /\ manager.pc \in {"setup", "tick", "sleep"}
    /\ manager' = [manager EXCEPT !.pc = "shutdown",
                                  !.shutdown_awaited = TRUE,
                                  !.last = Called("cancel", manager)]
    /\ UNCHANGED notManager

\* The task is cancelled while the finally clause awaits root.shutdown():
\* the CancelledError leaves run() and line 174 is not reached.
ShutdownCancelled ==
    /\ manager.pc = "shutdown"
    /\ manager' = [manager EXCEPT !.pc = "raised", !.last = Called("cancel", manager)]
    /\ UNCHANGED notManager

\* root.shutdown() returns and run() finishes.
RunShutdownDone ==
    /\ manager.pc = "shutdown"
    /\ manager' = RunFinally(manager)
    /\ UNCHANGED notManager

NextManager ==
    \/ TickTreeCall
    \/ TickTreeReturn
    \/ TakeSnapshot
    \/ Pause
    \/ Resume
    \/ Stop
    \/ RunStart
    \/ RunSetupDone
    \/ RunTickDone
    \/ RunSleepDone
    \/ RunCancelled
    \/ ShutdownCancelled
    \/ RunShutdownDone

SpecManager == InitManager /\ [][NextManager]_vars

\* The event loop resumes run() when what it awaits is done: setup, the tick
\* in progress, the sleep and shutdown all finish.
SpecRun ==
    /\ InitManager
    /\ [][NextManager]_vars
    /\ WF_vars(RunSetupDone)
    /\ WF_vars(RunTickDone)
    /\ WF_vars(RunSleepDone)
    /\ WF_vars(RunShutdownDone)

\* -------------------------------------------------------------------
\* Properties of BehaviorTreeManager
\* -------------------------------------------------------------------

\* A tick_tree() call that ticked the root has returned.
TickTreeTicked ==
    /\ manager.last.op = "tick_tree"
    /\ manager.last.ret # NONE
    /\ manager.has_root
    /\ ~manager.last.paused

\* C23: with enable_snapshots, a tick after which total_ticks is a multiple
\* of snapshot_interval appends exactly one snapshot and still returns the
\* root's status; any other tick leaves the snapshot list as it was.
C23_SnapshotEveryInterval ==
    TickTreeTicked =>
        IF manager.enable_snapshots /\ manager.total_ticks % manager.snapshot_interval = 0
        THEN /\ manager.snapshots = manager.last.before.snapshots + 1
             /\ manager.last.ret = manager.root_status
        ELSE manager.snapshots = manager.last.before.snapshots

\* C24: the round trip begins with take_snapshot() returning a snapshot that
\* holds the status of every node path and the value of every blackboard
\* key, which restore_snapshot() then writes back.
C24_SnapshotRoundTrip ==
    (manager.last.op = "take_snapshot" /\ manager.has_root) =>
        /\ ~manager.last.raised
        /\ manager.snapshots = manager.last.before.snapshots + 1

\* C25: on a paused manager tick_tree() returns the root's last status, does
\* not tick the root and leaves the context and the root as they were; on a
\* manager that is not paused, after resume() too, it ticks the root once.
C25_PausedTickTree ==
    /\ (manager.last.op = "tick_tree" /\ manager.last.paused) =>
          /\ manager.last.ret = manager.last.before.root_status
          /\ Context(manager) = manager.last.before
    /\ TickTreeTicked =>
          /\ manager.root_ticks = manager.last.before.root_ticks + 1
          /\ manager.total_ticks = manager.last.before.total_ticks + 1

\* C25 witness: a manager that had ticked its root was paused, tick_tree()
\* returned the root's status, and after resume() the next call ticked.
C25_Witness ==
    /\ manager.last.op = "tick_tree"
    /\ manager.last.paused
    /\ manager.total_ticks >= 1
    /\ manager.last.ret \in RootReturns

\* run() has ended: it returned, or a CancelledError left it.
RunEnded == manager.pc \in {"returned", "raised"}

\* The safety part of C26.
RunLifecycle ==
    /\ manager.pc \in {"tick", "sleep"} => manager.root_setup
    /\ (manager.pc = "tick" /\ manager.last.op = "tick_tree") => ~manager.stop_called
    /\ (manager.pc = "returned" /\ manager.has_root) =>
          /\ manager.shutdown_awaited
          /\ ~manager.root_setup
          /\ ~manager.running

C40_Accounting ==
    LET before == manager.last.before
        grown == {c \in {"success_count", "failure_count", "error_count"} :
                     manager[c] # before[c]}
    IN  /\ manager.success_count + manager.failure_count + manager.error_count
               <= manager.total_ticks
        /\ TickTreeTicked =>
              /\ manager.total_ticks = before.total_ticks + 1
              /\ Cardinality(grown) <= 1
              /\ \A c \in grown : manager[c] = before[c] + 1

\* ===================================================================
\* Blackboard (core/blackboard.py)
\* ===================================================================

\* The largest value written to the blackboard.
MaxBBValue == 1

\* The most entries of the activity log that set() calls by the workers and
\* operations of the main thread append.
MaxLog == 2

Workers == {1, 2}

Namespaces == {"default", "ns"}

Keys == {"k1", "k2"}

BBValues == 1 .. MaxBBValue

\* The key subscribe() is called with.
SubscribedKey == "k1"

\* What a subscriber callback calls on the namespace that notifies it.
CallbackOps == {"get", "set", "exists", "unset"}

\* The threading.Lock objects: the one __init__ creates for "default" and
\* the one create_namespace creates when worker w runs it.
DefaultLock == 1

LockOf(w) == 1 + w

Locks == {DefaultLock} \cup {LockOf(w) : w \in Workers}

\* No lock object: the key is not in _locks.
NoLock == 0

\* A namespace dict without keys.
EmptyNamespace == [k \in Keys |-> NoValue]

notBlackboard == <<compVars, nodeVars, retryVars, parVars, recVars, gateNode, manager, lateVars>>

\* What the operations may change and the claims speak of.
View(b) ==
    [namespaces |-> b.namespaces, data |-> b.data, log |-> b.log, subs |-> b.subs]

\* The record of the operation that has just ended.
Ended(b, op, ns, key, raised) ==
    [op |-> op, ns |-> ns, key |-> key, raised |-> raised, before |-> View(b)]

\* A worker that is not inside set().
IdleWorker ==
    [pc |-> "idle", ns |-> "default", key |-> "k1", value |-> 1, cb |-> "none",
     lock |-> NoLock, done |-> FALSE, raised |-> FALSE]

\* Blackboard.__init__
InitBlackboard ==
    /\ CompositeIdle
    /\ NodeIdle
    /\ RetryIdle
    /\ ParallelIdle
    /\ RecordsIdle
    /\ gateNode = Off
    /\ manager = Off
    /\ LateIdle
    /\ LET b == [namespaces |-> {"default"},
                 data |-> [n \in Namespaces |-> EmptyNamespace],
                 log |-> <<>>,
                 subs |-> [n \in Namespaces |-> IF n = "default" THEN "empty" ELSE "absent"]]
       IN  blackboard = [pc |-> "on",
                         namespaces |-> b.namespaces,
                         data |-> b.data,
                         log |-> b.log,
                         subs |-> b.subs,
                         locks |-> [n \in Namespaces |->
                                       IF n = "default" THEN DefaultLock ELSE NoLock],
                         holder |-> [l \in Locks |-> 0],
                         worker |-> [w \in Workers |-> IdleWorker],
                         last |-> Ended(b, "init", "default", "k1", FALSE)]

\* `with self._locks[namespace]` can be entered: the lock object is there
\* and nobody holds it. (A lock that is missing raises KeyError instead.)
LockFree(b, ns) == b.locks[ns] # NoLock => b.holder[b.locks[ns]] = 0

\* A write of another caller ends what a finished set() can promise.
Invalidate(b) ==
    [b EXCEPT !.worker = [w \in Workers |-> [b.worker[w] EXCEPT !.done = FALSE]]]

\* get(key, namespace) by the main thread, for any key: the value it
\* returns and the access count of the entry are not modelled.
Get ==
    /\ blackboard.pc = "on"
    /\ \E ns \in Namespaces :
          /\ ns \in blackboard.namespaces => LockFree(blackboard, ns)
          /\ blackboard' =
                [blackboard EXCEPT !.last =
                    Ended(blackboard, "get", ns, "k1",
                          ns \notin blackboard.namespaces \/ blackboard.locks[ns] = NoLock)]
    /\ UNCHANGED notBlackboard

\* exists(key, namespace) by the main thread, for any key.
Exists ==
    /\ blackboard.pc = "on"
    /\ \E ns \in Namespaces :
          /\ ns \in blackboard.namespaces => LockFree(blackboard, ns)
          /\ blackboard' =
                [blackboard EXCEPT !.last =
                    Ended(blackboard, "exists", ns, "k1",
                          ns \in blackboard.namespaces /\ blackboard.locks[ns] = NoLock)]
    /\ UNCHANGED notBlackboard

\* unset(key, namespace) once the lock is held, lines 148-158.
unset(b, ns, key) ==
    IF b.data[ns][key] = NoValue THEN b
    ELSE [Invalidate(b) EXCEPT !.data[ns][key] = NoValue,
                               !.log = Append(@, "unset")]

\* unset(key, namespace) by the main thread.
Unset ==
    /\ blackboard.pc = "on"
    /\ Len(blackboard.log) < MaxLog
    /\ \E ns \in Namespaces, key \in Keys :
          IF ns \notin blackboard.namespaces
          THEN blackboard' = [blackboard EXCEPT !.last =
                                 Ended(blackboard, "unset", ns, key, FALSE)]
          ELSE IF blackboard.locks[ns] = NoLock
          THEN blackboard' = [blackboard EXCEPT !.last =
                                 Ended(blackboard, "unset", ns, key, TRUE)]
          ELSE /\ LockFree(blackboard, ns)
               /\ blackboard' = [unset(blackboard, ns, key) EXCEPT !.last =
                                    Ended(blackboard, "unset", ns, key, FALSE)]
    /\ UNCHANGED notBlackboard

\* clear_namespace(namespace) by the main thread; _subscribers[namespace]
\* raises KeyError when create_namespace has not assigned it yet.
ClearNamespace ==
    /\ blackboard.pc = "on"
    /\ Len(blackboard.log) < MaxLog
    /\ \E ns \in Namespaces :
          IF ns \notin blackboard.namespaces
          THEN blackboard' = [blackboard EXCEPT !.last =
                                 Ended(blackboard, "clear_namespace", ns, "k1", FALSE)]
          ELSE IF blackboard.locks[ns] = NoLock
          THEN blackboard' = [blackboard EXCEPT !.last =
                                 Ended(blackboard, "clear_namespace", ns, "k1", TRUE)]
          ELSE /\ LockFree(blackboard, ns)
               /\ LET cleared == [Invalidate(blackboard) EXCEPT !.data[ns] = EmptyNamespace]
                  IN  blackboard' =
                         IF blackboard.subs[ns] = "absent"
                         THEN [cleared EXCEPT !.last =
                                  Ended(blackboard, "clear_namespace", ns, "k1", TRUE)]
                         ELSE [cleared EXCEPT !.subs[ns] = "empty",
                                              !.log = Append(@, "clear_namespace"),
                                              !.last = Ended(blackboard, "clear_namespace",
                                                             ns, "k1", FALSE)]
    /\ UNCHANGED notBlackboard

\* subscribe(key, callback, namespace) by the main thread: it touches
\* _subscribers only.
Subscribe ==
    /\ blackboard.pc = "on"
    /\ \E ns \in Namespaces :
          blackboard' = [blackboard EXCEPT !.subs[ns] = "subscribed",
                                           !.last = Ended(blackboard, "subscribe", ns,
                                                          SubscribedKey, FALSE)]
    /\ UNCHANGED notBlackboard

\* A step inside a set() of worker w that does not end the call.
Step(b, w, rec) ==
    [b EXCEPT !.worker[w] = rec, !.last = Ended(b, "step", rec.ns, rec.key, FALSE)]

\* Worker w calls set(key, value, namespace).
SetCall ==
    /\ blackboard.pc = "on"
    /\ \E w \in Workers, ns \in Namespaces, key \in Keys, value \in BBValues :
          /\ blackboard.worker[w].pc = "idle"
          /\ Len(blackboard.log)
                + Cardinality({v \in Workers : blackboard.worker[v].pc # "idle"}) < MaxLog
          /\ blackboard' = Step(blackboard, w,
                                [IdleWorker EXCEPT !.pc = "test", !.ns = ns,
                                                   !.key = key, !.value = value])
    /\ UNCHANGED notBlackboard

\* `if namespace not in self._data`, line 88 and again line 73.
SetTest ==
    /\ blackboard.pc = "on"
    /\ \E w \in Workers :
          LET me == blackboard.worker[w]
          IN  /\ me.pc = "test"
              /\ blackboard' = Step(blackboard, w,
                                    [me EXCEPT !.pc = IF me.ns \in blackboard.namespaces
                                                      THEN "acquire" ELSE "create_data"])
    /\ UNCHANGED notBlackboard

\* create_namespace, line 74: `self._data[namespace] = {}`.
CreateData ==
    /\ blackboard.pc = "on"
    /\ \E w \in Workers :
          LET me == blackboard.worker[w]
          IN  /\ me.pc = "create_data"
              /\ blackboard' =
                    [Step(blackboard, w, [me EXCEPT !.pc = "create_lock"])
                        EXCEPT !.namespaces = @ \cup {me.ns},
                               !.data[me.ns] = EmptyNamespace]
    /\ UNCHANGED notBlackboard

\* create_namespace, line 75: `self._locks[namespace] = threading.Lock()`.
CreateLock ==
    /\ blackboard.pc = "on"
    /\ \E w \in Workers :
          LET me == blackboard.worker[w]
          IN  /\ me.pc = "create_lock"
              /\ blackboard' =
                    [Step(blackboard, w, [me EXCEPT !.pc = "create_subs"])
                        EXCEPT !.locks[me.ns] = LockOf(w)]
    /\ UNCHANGED notBlackboard

\* create_namespace, line 76: `self._subscribers[namespace] = {}`.
CreateSubs ==
    /\ blackboard.pc = "on"
    /\ \E w \in Workers :
          LET me == blackboard.worker[w]
          IN  /\ me.pc = "create_subs"
              /\ blackboard' =
                    [Step(blackboard, w, [me EXCEPT !.pc = "acquire"])
                        EXCEPT !.subs[me.ns] = "empty"]
    /\ UNCHANGED notBlackboard

\* set() of worker w ends: the lock it holds is released.
SetReturn(b, w, rec, raised) ==
    [b EXCEPT !.worker[w] = [rec EXCEPT !.pc = "idle", !.done = TRUE, !.raised = raised],
              !.holder = [l \in Locks |-> IF b.holder[l] = w THEN 0 ELSE b.holder[l]],
              !.last = Ended(b, "set", rec.ns, rec.key, raised)]

\* set(), lines 91-122: the lock is taken, the entry stored, the activity
\* logged and the subscribers of the key called, under the lock.
SetLocked ==
    /\ blackboard.pc = "on"
    /\ \E w \in Workers :
          LET me == blackboard.worker[w]
              lock == blackboard.locks[me.ns]
          IN  /\ me.pc = "acquire"
              /\ IF lock = NoLock
                 THEN blackboard' = SetReturn(blackboard, w, me, TRUE)
                 ELSE /\ blackboard.holder[lock] = 0
                      /\ LET written == [blackboard EXCEPT
                                            !.data[me.ns][me.key] = me.value,
                                            !.log = Append(@, "set"),
                                            !.holder[lock] = w]
                             mine == [me EXCEPT !.lock = lock]
                         IN  IF blackboard.subs[me.ns] = "absent"
                             THEN blackboard' =
                                     [SetReturn(written, w, mine, TRUE)
                                         EXCEPT !.last.before = View(blackboard)]
                             ELSE IF blackboard.subs[me.ns] = "subscribed"
                                     /\ me.key = SubscribedKey
                             THEN \E cb \in CallbackOps \cup {"none"} :
                                     blackboard' =
                                        IF cb = "none"
                                        THEN [SetReturn(written, w, mine, FALSE)
                                                 EXCEPT !.last.before = View(blackboard)]
                                        ELSE Step(written, w,
                                                  [mine EXCEPT !.pc = "callback", !.cb = cb])
                             ELSE blackboard' =
                                     [SetReturn(written, w, mine, FALSE)
                                         EXCEPT !.last.before = View(blackboard)]
    /\ UNCHANGED notBlackboard

\* The callback of worker w's set() calls get, set, exists or unset on the
\* same namespace: the call takes self._locks[namespace], which is the lock
\* the worker holds unless create_namespace has replaced it meanwhile. A set
\* in the callback notifies the callback again, under the lock it took.
Callback ==
    /\ blackboard.pc = "on"
    /\ \E w \in Workers :
          LET me == blackboard.worker[w]
              lock == blackboard.locks[me.ns]
          IN  /\ me.pc = "callback"
              /\ lock # NoLock
              /\ blackboard.holder[lock] = 0
              /\ blackboard' =
                    CASE me.cb \in {"get", "exists"} ->
                            SetReturn(blackboard, w, me, FALSE)
                      [] me.cb = "unset" ->
                            SetReturn(unset(blackboard, me.ns, me.key), w, me, FALSE)
                      [] me.cb = "set" ->
                            LET written == [Invalidate(blackboard) EXCEPT
                                               !.data[me.ns][me.key] = me.value,
                                               !.log = Append(@, "set")]
                            IN  IF blackboard.subs[me.ns] = "subscribed"
                                THEN [Step(written, w, me) EXCEPT !.holder[lock] = w]
                                ELSE SetReturn(written, w, me, FALSE)
    /\ UNCHANGED notBlackboard

NextBlackboard ==
    \/ Get
    \/ Exists
    \/ Unset
    \/ ClearNamespace
    \/ Subscribe
    \/ SetCall
    \/ SetTest
    \/ CreateData
    \/ CreateLock
    \/ CreateSubs
    \/ SetLocked
    \/ Callback

SpecBlackboard == InitBlackboard /\ [][NextBlackboard]_vars

\* The scheduler runs every thread that can run: a worker inside set()
\* takes its next step when that step is possible.
SpecBlackboardFair ==
    /\ InitBlackboard
    /\ [][NextBlackboard]_vars
    /\ WF_vars(SetTest \/ CreateData \/ CreateLock \/ CreateSubs \/ SetLocked \/ Callback)

\* -------------------------------------------------------------------
\* Properties of Blackboard
\* -------------------------------------------------------------------

\* The namespace exists: get() finds it in _data.
NamespaceExists(ns) == ns \in blackboard.namespaces

\* C27: "default" exists from construction; get() on a namespace that does
\* not exist raises and changes nothing; set, unset, exists, clear_namespace
\* and subscribe on a namespace that does not exist create it and do not
\* fail.
C27_Namespaces ==
    /\ NamespaceExists("default")
    /\ (blackboard.last.op = "get"
          /\ blackboard.last.ns \notin blackboard.last.before.namespaces) =>
          /\ blackboard.last.raised
          /\ View(blackboard) = blackboard.last.before
    /\ blackboard.last.op \in {"set", "unset", "exists", "clear_namespace", "subscribe"} =>
          /\ NamespaceExists(blackboard.last.ns)
          /\ ~blackboard.last.raised

\* C28: the activity log is append-only; set(), unset() and
\* clear_namespace() each add exactly one entry, whatever the key and the
\* namespace; no other operation changes the log.
C28_ActivityLog ==
    LET before == blackboard.last.before.log
    IN  /\ Len(blackboard.log) >= Len(before)
        /\ SubSeq(blackboard.log, 1, Len(before)) = before
        /\ Len(blackboard.log) =
              IF blackboard.last.op \in {"set", "unset", "clear_namespace"}
              THEN Len(before) + 1 ELSE Len(before)

\* C29: when two workers have called set(k1, v1, ns) and set(k2, v2, ns)
\* with k1 # k2, in whatever interleaving and also when ns did not exist,
\* both values are stored and both calls used the same lock.
C29_ConcurrentSet ==
    \A v \in Workers, w \in Workers :
        LET a == blackboard.worker[v]
            b == blackboard.worker[w]
        IN  (a.done /\ b.done /\ a.ns = b.ns /\ a.key # b.key) =>
                /\ blackboard.data[a.ns][a.key] = a.value
                /\ blackboard.data[b.ns][b.key] = b.value
                /\ a.lock = b.lock

\* C30: a set() whose subscriber callback calls get, set, exists or unset
\* on the same namespace returns.
C30_ReentrantCallback ==
    \A w \in Workers :
        (blackboard.worker[w].pc = "callback") ~> (blackboard.worker[w].pc = "idle")

\* ===================================================================
\* RandomSelector: composites.py
\* ===================================================================

notRandom == <<compVars, nodeVars, retryVars, parVars, recVars, moreVars,
               emitter, shape, client, loader>>

\* The largest number of children of a RandomSelector.
MaxRandomChildren == 2

\* random.shuffle(list(range(n))): every ordering of the indices 0..n-1
Permutations(n) ==
    {p \in [1 .. n -> 0 .. n - 1] : \A j \in 1 .. n, k \in 1 .. n : p[j] = p[k] => j = k}

\* The while loop of RandomSelector._tick over the queue: each index is
\* popped from the front before its child is ticked; RUNNING returns with
\* the rest of the queue, SUCCESS clears the queue, an empty queue is
\* FAILURE.
RECURSIVE RandomLoop(_, _, _)
RandomLoop(queue, returns, done) ==
    IF queue = <<>>
    THEN [status |-> "FAILURE", queue |-> <<>>, ticked |-> done]
    ELSE LET index == Head(queue)
             status == returns[index]
             now == Append(done, [child |-> index, status |-> status])
         IN  IF status = "RUNNING"
             THEN [status |-> "RUNNING", queue |-> Tail(queue), ticked |-> now]
             ELSE IF status = "SUCCESS"
             THEN [status |-> "SUCCESS", queue |-> <<>>, ticked |-> now]
             ELSE RandomLoop(Tail(queue), returns, now)

\* RandomSelector.__init__ and add_child: _shuffled_indices = []
InitRandom ==
    /\ CompositeIdle
    /\ NodeIdle
    /\ RetryIdle
    /\ ParallelIdle
    /\ RecordsIdle
    /\ MoreIdle
    /\ emitter = Off
    /\ shape = Off
    /\ client = Off
    /\ loader = Off
    /\ \E n \in 0 .. MaxRandomChildren :
          randomNode = [pc |-> "idle",
                        numChildren |-> n,
                        shuffled_indices |-> <<>>,
                        result |-> NONE,
                        \* history: the permutation in use, the children
                        \* ticked under it, the children ticked by the last
                        \* tick, and the child that returned RUNNING in the
                        \* tick before it (-1: none)
                        permutation |-> <<>>,
                        sincePermutation |-> <<>>,
                        ticked |-> <<>>,
                        prevRunning |-> -1]

\* RandomSelector._tick
RandomTick ==
    /\ randomNode.pc = "idle"
    /\ LET n == randomNode.numChildren
           fresh == randomNode.shuffled_indices = <<>>
           running == IF randomNode.result = "RUNNING"
                      THEN randomNode.ticked[Len(randomNode.ticked)].child
                      ELSE -1
       IN  IF n = 0
           THEN randomNode' = [randomNode EXCEPT !.result = "FAILURE",
                                                 !.ticked = <<>>,
                                                 !.prevRunning = running]
           ELSE \E shuffle \in IF fresh THEN Permutations(n) ELSE {<<>>},
                   returns \in [0 .. n - 1 -> ChildReturns] :
                   LET queue == IF fresh THEN shuffle ELSE randomNode.shuffled_indices
                       loop == RandomLoop(queue, returns, <<>>)
                   IN  randomNode' =
                          [randomNode EXCEPT
                              !.shuffled_indices = loop.queue,
                              !.result = loop.status,
                              !.permutation = IF fresh THEN shuffle ELSE @,
                              !.sincePermutation = IF fresh THEN loop.ticked
                                                   ELSE @ \o loop.ticked,
                              !.ticked = loop.ticked,
                              !.prevRunning = running]
    /\ UNCHANGED notRandom

\* RandomSelector.reset
RandomReset ==
    /\ randomNode.pc = "idle"
    /\ randomNode.result # NONE
    /\ randomNode' = [randomNode EXCEPT !.shuffled_indices = <<>>,
                                        !.result = NONE,
                                        !.ticked = <<>>,
                                        !.prevRunning = -1]
    /\ UNCHANGED notRandom

NextRandom ==
    \/ RandomTick
    \/ RandomReset

SpecRandom == InitRandom /\ [][NextRandom]_vars

\* C36: RandomSelector is a selector over the sampled permutation: it
\* returns FAILURE only when every child was ticked under the current
\* permutation and none of them returned SUCCESS or RUNNING; the child that
\* returned RUNNING is the first child ticked by the next tick; and the
\* children ticked under one permutation are a prefix of it, none skipped.
C36_RandomSelector ==
    LET r == randomNode
        under == r.sincePermutation
    IN  (r.pc = "idle" /\ r.result \in Status) =>
            /\ r.result = "FAILURE" =>
                  /\ {under[k].child : k \in 1 .. Len(under)} = 0 .. r.numChildren - 1
                  /\ \A k \in 1 .. Len(under) : under[k].status \notin {"SUCCESS", "RUNNING"}
            /\ r.prevRunning # -1 =>
                  /\ r.ticked # <<>>
                  /\ r.ticked[1].child = r.prevRunning
            /\ r.numChildren > 0 =>
                  /\ Len(under) <= Len(r.permutation)
                  /\ \A k \in 1 .. Len(under) : under[k].child = r.permutation[k]

\* ===================================================================
\* Event handlers of a BehaviorNode: node.py
\* ===================================================================

\* The largest number of handlers registered for one event.
MaxHandlers == 3

\* The callables that can be registered.
Handlers == 1 .. MaxHandlers

notEmitter == <<compVars, nodeVars, retryVars, parVars, recVars, moreVars,
                randomNode, shape, client, loader>>

\* `for handler in self.event_handlers[event]`: event_handlers[event] is a
\* set of callables, which Python iterates in the order of their hashes
\* (their addresses), whatever the order they were added in.
IterationOrders(S) ==
    {p \in [1 .. Cardinality(S) -> S] :
        \A j \in 1 .. Cardinality(S), k \in 1 .. Cardinality(S) : p[j] = p[k] => j = k}

\* The sequence q without the element h.
RECURSIVE Without(_, _)
Without(q, h) ==
    IF q = <<>> THEN <<>>
    ELSE IF Head(q) = h THEN Without(Tail(q), h)
    ELSE <<Head(q)>> \o Without(Tail(q), h)

\* The body of the loop of _emit_event over the handlers in iteration
\* order: each is called; what a handler raises is caught and logged and
\* the loop goes on.
RECURSIVE EmitLoop(_, _, _)
EmitLoop(order, raising, done) ==
    IF order = <<>> THEN done
    ELSE LET handler == Head(order)
         IN  EmitLoop(Tail(order), raising,
                      [invoked |-> Append(done.invoked, handler),
                       logged |-> IF handler \in raising
                                  THEN Append(done.logged, handler)
                                  ELSE done.logged])

\* BehaviorNode.__init__: one empty set of handlers per event; the node
\* is initialized, and some of the callables raise when called.
InitEmitter ==
    /\ CompositeIdle
    /\ NodeIdle
    /\ RetryIdle
    /\ ParallelIdle
    /\ RecordsIdle
    /\ MoreIdle
    /\ randomNode = Off
    /\ shape = Off
    /\ client = Off
    /\ loader = Off
    /\ \E raising \in SUBSET Handlers :
          emitter = [pc |-> "idle",
                     event_handlers |-> {},
                     raising |-> raising,
                     \* history: the handlers registered, in the order of
                     \* their add_event_handler calls; the handlers the last
                     \* tick's ENTERING invoked, in order; what _tick()
                     \* returned and what tick() returned
                     added |-> <<>>,
                     ticked |-> FALSE,
                     invoked |-> <<>>,
                     logged |-> <<>>,
                     inner |-> NONE,
                     returned |-> NONE]

\* add_event_handler(ENTERING, h)
AddEventHandler ==
    /\ emitter.pc = "idle"
    /\ \E h \in Handlers :
          emitter' = [emitter EXCEPT
                         !.event_handlers = @ \cup {h},
                         !.added = IF h \in emitter.event_handlers THEN @ ELSE Append(@, h),
                         !.ticked = FALSE]
    /\ UNCHANGED notEmitter

\* remove_event_handler(ENTERING, h)
RemoveEventHandler ==
    /\ emitter.pc = "idle"
    /\ \E h \in Handlers :
          emitter' = [emitter EXCEPT
                         !.event_handlers = @ \ {h},
                         !.added = Without(@, h),
                         !.ticked = FALSE]
    /\ UNCHANGED notEmitter

\* tick() of the node, set up and without conditions: _emit_event(ENTERING)
\* calls every handler of the set, logging what a handler raises, then
\* _tick() returns a status, which tick() returns.
EmitterTick ==
    /\ emitter.pc = "idle"
    /\ \E order \in IterationOrders(emitter.event_handlers),
          status \in {"SUCCESS", "FAILURE", "RUNNING"} :
          LET emitted == EmitLoop(order, emitter.raising,
                                  [invoked |-> <<>>, logged |-> <<>>])
          IN
          emitter' = [emitter EXCEPT !.ticked = TRUE,
                                     !.invoked = emitted.invoked,
                                     !.logged = emitted.logged,
                                     !.inner = status,
                                     !.returned = status]
    /\ UNCHANGED notEmitter

NextEmitter ==
    \/ AddEventHandler
    \/ RemoveEventHandler
    \/ EmitterTick

SpecEmitter == InitEmitter /\ [][NextEmitter]_vars

\* C31: an emission invokes the handlers registered for the event in the
\* order they were added, each exactly once, the ones after a raising
\* handler included, and tick() returns the status _tick() returned.
C31_HandlersInOrder ==
    emitter.ticked =>
        /\ emitter.invoked = emitter.added
        /\ emitter.returned = emitter.inner

\* ===================================================================
\* Tree shape: ParentNode.add_child / remove_child, node.py;
\* DecoratorNode.add_child, decorators.py
\* ===================================================================

\* The number of node objects.
MaxShapeNodes == 3

\* The largest total number of entries in the children lists.
MaxEdges == 3

ShapeNodes == 1 .. MaxShapeNodes

\* child.parent = None
NoParent == 0

notShape == <<compVars, nodeVars, retryVars, parVars, recVars, moreVars,
              randomNode, emitter, client, loader>>

\* `child in self.children`
InList(q, c) == \E k \in 1 .. Len(q) : q[k] = c

\* list.remove(c): the list without the first occurrence of c
RECURSIVE ListRemove(_, _)
ListRemove(q, c) ==
    IF q = <<>> THEN <<>>
    ELSE IF Head(q) = c THEN Tail(q)
    ELSE <<Head(q)>> \o ListRemove(Tail(q), c)

\* ParentNode.add_child(c) on node p: lines 276-277 (the blackboard of the
\* child is not part of the shape).
add_child(s, p, c) ==
    [s EXCEPT !.parent[c] = p,
              !.children[p] = Append(@, c)]

\* ParentNode.remove_child(c) on node p
remove_child(s, p, c) ==
    IF InList(s.children[p], c)
    THEN [s EXCEPT !.parent[c] = NoParent,
                   !.children[p] = ListRemove(@, c)]
    ELSE s

\* The entries of all children lists.
RECURSIVE Edges(_, _)
Edges(s, n) == IF n = 0 THEN 0 ELSE Len(s.children[n]) + Edges(s, n - 1)

\* ParentNode.__init__ of every node: parent None, children []; some of
\* the nodes are DecoratorNodes.
InitShape ==
    /\ CompositeIdle
    /\ NodeIdle
    /\ RetryIdle
    /\ ParallelIdle
    /\ RecordsIdle
    /\ MoreIdle
    /\ randomNode = Off
    /\ emitter = Off
    /\ client = Off
    /\ loader = Off
    /\ \E decorators \in SUBSET ShapeNodes :
          shape = [pc |-> "idle",
                   decorators |-> decorators,
                   parent |-> [n \in ShapeNodes |-> NoParent],
                   children |-> [n \in ShapeNodes |-> <<>>],
                   raised |-> FALSE]

\* p.add_child(c): a DecoratorNode with a child raises ValueError, any
\* other node takes the child.
AddChild ==
    /\ shape.pc = "idle"
    /\ Edges(shape, MaxShapeNodes) < MaxEdges
    /\ \E p \in ShapeNodes, c \in ShapeNodes :
          shape' = IF p \in shape.decorators /\ Len(shape.children[p]) >= 1
                   THEN [shape EXCEPT !.raised = TRUE]
                   ELSE [add_child(shape, p, c) EXCEPT !.raised = FALSE]
    /\ UNCHANGED notShape

\* p.remove_child(c)
RemoveChild ==
    /\ shape.pc = "idle"
    /\ \E p \in ShapeNodes, c \in ShapeNodes :
          shape' = [remove_child(shape, p, c) EXCEPT !.raised = FALSE]
    /\ UNCHANGED notShape

NextShape ==
    \/ AddChild
    \/ RemoveChild

SpecShape == InitShape /\ [][NextShape]_vars

\* The node reached from n by following parent k times (NoParent: none).
RECURSIVE Up(_, _)
Up(n, k) ==
    IF k = 0 \/ n = NoParent THEN n
    ELSE Up(shape.parent[n], k - 1)

\* C32: after any sequence of add_child and remove_child calls,
\* child.parent is a node exactly when the child is in that node's children
\* list, every node is in at most one children list and at most once, and
\* no node is its own ancestor.
C32_TreeShape ==
    shape.pc = "idle" =>
        /\ \A p \in ShapeNodes, c \in ShapeNodes :
              shape.parent[c] = p <=> InList(shape.children[p], c)
        /\ \A c \in ShapeNodes :
              Cardinality({e \in ShapeNodes \X (1 .. MaxEdges) :
                              /\ e[2] <= Len(shape.children[e[1]])
                              /\ shape.children[e[1]][e[2]] = c}) <= 1
        /\ \A n \in ShapeNodes, k \in 1 .. MaxShapeNodes : Up(n, k) # n

\* ===================================================================
\* BlackboardClient: blackboard.py
\* ===================================================================

\* The number of BlackboardClient objects on the blackboard.
MaxClients == 2

\* The largest number of subscribe calls not withdrawn by their own client.
MaxSubscribers == 3

Clients == 1 .. MaxClients

\* The owner of a callback subscribed with Blackboard.subscribe directly.
Direct == 0

notClient == <<compVars, nodeVars, retryVars, parVars, recVars, moreVars,
               randomNode, emitter, shape, loader>>

\* The sequence q without the elements equal to c.
RECURSIVE Except(_, _)
Except(q, c) ==
    IF q = <<>> THEN <<>>
    ELSE IF Head(q) = c THEN Except(Tail(q), c)
    ELSE <<Head(q)>> \o Except(Tail(q), c)

\* Blackboard.subscribe(key, callback, namespace): the callback, named by
\* its owner, is appended to the list of the key.
subscribe(subscribers, ns, key, owner) ==
    [subscribers EXCEPT ![ns][key] = Append(@, owner)]

\* Blackboard.unsubscribe(key, None, namespace): with callback None the
\* list of the key is cleared.
unsubscribe_None(subscribers, ns, key) ==
    [subscribers EXCEPT ![ns][key] = <<>>]

\* Blackboard.unsubscribe(key, None, namespace) removing only the callbacks
\* of one owner.
unsubscribe_Owner(subscribers, ns, keys, owner) ==
    [subscribers EXCEPT ![ns] = [key \in Keys |->
                                    IF key \in keys THEN Except(@[key], owner) ELSE @[key]]]

\* BlackboardClient.unsubscribe_all: the loop over self._subscriptions
RECURSIVE unsubscribe_all(_, _, _)
unsubscribe_all(subscribers, ns, keys) ==
    IF keys = {} THEN subscribers
    ELSE LET key == CHOOSE k \in keys : TRUE
         IN  unsubscribe_all(unsubscribe_None(subscribers, ns, key), ns, keys \ {key})

\* The number of callbacks in the lists of a subscribers dictionary.
Subscribed(subscribers) ==
    LET slots == Namespaces \X Keys
        count[S \in SUBSET slots] ==
            IF S = {} THEN 0
            ELSE LET slot == CHOOSE x \in S : TRUE
                 IN  Len(subscribers[slot[1]][slot[2]]) + count[S \ {slot}]
    IN  count[slots]

\* Blackboard() and BlackboardClient(blackboard, namespace, client_id) for
\* each client: no subscribers, _subscriptions = set()
InitClient ==
    /\ CompositeIdle
    /\ NodeIdle
    /\ RetryIdle
    /\ ParallelIdle
    /\ RecordsIdle
    /\ MoreIdle
    /\ randomNode = Off
    /\ emitter = Off
    /\ shape = Off
    /\ loader = Off
    /\ \E namespace \in [Clients -> Namespaces] :
          client = [pc |-> "idle",
                    namespace |-> namespace,
                    subscriptions |-> [c \in Clients |-> {}],
                    subscribers |-> [ns \in Namespaces |-> [key \in Keys |-> <<>>]],
                    \* history: the callbacks subscribed and not withdrawn
                    \* by their own client, and the last call
                    kept |-> [ns \in Namespaces |-> [key \in Keys |-> <<>>]],
                    last |-> [op |-> "init", ns |-> "default", key |-> "k1",
                              notified |-> <<>>]]

\* client.subscribe(key, callback), lines 44-47
ClientSubscribe ==
    /\ client.pc = "idle"
    /\ \E c \in Clients, key \in Keys :
          LET ns == client.namespace[c]
          IN  /\ Subscribed(client.kept) < MaxSubscribers
              /\ client' = [client EXCEPT
                               !.subscribers = subscribe(@, ns, key, c),
                               !.subscriptions[c] = @ \cup {key},
                               !.kept = subscribe(@, ns, key, c),
                               !.last = [op |-> "subscribe", ns |-> ns, key |-> key,
                                         notified |-> <<>>]]
    /\ UNCHANGED notClient

\* blackboard.subscribe(key, callback, namespace) without a client
DirectSubscribe ==
    /\ client.pc = "idle"
    /\ \E ns \in Namespaces, key \in Keys :
          /\ Subscribed(client.kept) < MaxSubscribers
          /\ client' = [client EXCEPT
                           !.subscribers = subscribe(@, ns, key, Direct),
                           !.kept = subscribe(@, ns, key, Direct),
                           !.last = [op |-> "subscribe", ns |-> ns, key |-> key,
                                     notified |-> <<>>]]
    /\ UNCHANGED notClient

\* client.unsubscribe_all(), lines 49-53
UnsubscribeAll ==
    /\ client.pc = "idle"
    /\ \E c \in Clients :
          LET ns == client.namespace[c]
          IN  client' = [client EXCEPT
                            !.subscribers = unsubscribe_all(@, ns, client.subscriptions[c]),
                            !.subscriptions[c] = {},
                            !.kept = unsubscribe_Owner(@, ns, client.subscriptions[c], c),
                            !.last = [op |-> "unsubscribe_all", ns |-> ns, key |-> "k1",
                                      notified |-> <<>>]]
    /\ UNCHANGED notClient

\* blackboard.set(key, value, namespace): every callback in the list of the
\* key is called, in order.
ClientSet ==
    /\ client.pc = "idle"
    /\ \E ns \in Namespaces, key \in Keys :
          client' = [client EXCEPT
                        !.last = [op |-> "set", ns |-> ns, key |-> key,
                                  notified |-> client.subscribers[ns][key]]]
    /\ UNCHANGED notClient

NextClient ==
    \/ ClientSubscribe
    \/ DirectSubscribe
    \/ UnsubscribeAll
    \/ ClientSet

SpecClient == InitClient /\ [][NextClient]_vars

\* C39: unsubscribe_all() of a client removes only the callbacks that client
\* registered: a set() calls every callback subscribed to its key, by
\* another client or directly, that its own client has not withdrawn, and
\* no callback of a client that called unsubscribe_all() since.
C39_UnsubscribeAll ==
    client.last.op = "set" =>
        client.last.notified = client.kept[client.last.ns][client.last.key]

\* ===================================================================
\* ConfigLoader: utils/config_loader.py; save_to_file / load_from_file:
\* tree_manager.py
\* ===================================================================

\* The largest number of children of the root of a configuration or tree.
MaxConfigChildren == 2

notLoader == <<compVars, nodeVars, retryVars, parVars, recVars, moreVars,
               randomNode, emitter, shape, client>>

\* A class name is the sequence of its capitalised words, so that
\* str.endswith can be computed: "SequenceNode" is <<"Sequence", "Node">>.
CompositeClasses ==
    {<<"Sequence", "Node">>, <<"Selector", "Node">>, <<"Parallel", "Node">>,
     <<"Reactive", "Sequence">>, <<"Reactive", "Selector">>, <<"Random", "Selector">>}

DecoratorClasses ==
    {<<"Inverter", "Node">>, <<"Force", "Success", "Node">>,
     <<"Force", "Failure", "Node">>, <<"Repeat", "Node">>, <<"Retry", "Node">>,
     <<"Timeout", "Node">>, <<"Delay", "Node">>,
     <<"Blackboard", "Condition", "Node">>, <<"Cooldown", "Node">>}

LeafClasses ==
    {<<"Action", "Node">>, <<"Condition", "Node">>, <<"Wait", "Node">>,
     <<"Debug", "Log", "Node">>, <<"Blackboard", "Set", "Node">>,
     <<"Blackboard", "Delete", "Node">>, <<"Event", "Emit", "Node">>,
     <<"Timed", "Condition", "Node">>, <<"Throttle", "Node">>,
     <<"Retry", "Until", "Success", "Node">>}

\* The names bound to classes in the __dict__ of composites, decorators and
\* leaves: the classes they define and the classes they import.
ModuleClasses ==
    CompositeClasses \cup DecoratorClasses \cup LeafClasses
        \cup {<<"Decorator", "Node">>, <<"Parent", "Node">>, <<"Leaf", "Node">>,
              <<"Node", "Status">>, <<"Node", "Event">>, <<"Parallel", "Policy">>,
              <<"Memory", "Policy">>, <<"Action", "Result">>, <<"Enum">>,
              <<"datetime">>, <<"timedelta">>}

\* ConfigLoader._collect_node_types: the classes whose name ends with 'Node'
collect_node_types == {name \in ModuleClasses : name[Len(name)] = "Node"}

\* The types a configuration is written with: built-in classes of each
\* module and a name that is no class.
TypeChoices ==
    {<<"Sequence", "Node">>, <<"Reactive", "Sequence">>, <<"Action", "Node">>, <<"Bogus">>}

\* The property values of a node, by what json and yaml make of them.
PropertyValues == {"int", "tuple"}

\* The dictionary of a child: its 'name' is its position in the list.
NodeDicts == [type : TypeChoices]

ChildLists == UNION {[1 .. n -> NodeDicts] : n \in 0 .. MaxConfigChildren}

\* The dictionaries validate_and_parse is called with: with or without the
\* required keys, and with children.
Documents ==
    [keys : {{"name", "type", "properties", "children"}, {"name", "properties", "children"}},
     type : TypeChoices,
     properties : PropertyValues,
     children : ChildLists]

\* No document, no tree.
Nothing == [keys |-> {}, type |-> <<>>, properties |-> "none", children |-> <<>>]

\* SCHEMA: an object with the required keys "name" and "type", in the
\* dictionary and in each of its children.
SchemaValid(data) == {"name", "type"} \subseteq data.keys

\* _parse_node_config: the NodeConfig of the dictionary and, recursively,
\* of its children; no type is looked at.
parse_node_config(data) ==
    [keys |-> {"name", "type", "properties", "children"},
     type |-> data.type,
     properties |-> data.properties,
     children |-> data.children]

\* validate_and_parse: the schema, then the type of the top dictionary
\* against _node_types, then the parse. The result is the NodeConfig or
\* the exception raised.
validate_and_parse(data) ==
    IF ~SchemaValid(data)
    THEN [raised |-> "ConfigValidationError", config |-> Nothing]
    ELSE IF data.type \notin collect_node_types
    THEN [raised |-> "ConfigValidationError", config |-> Nothing]
    ELSE [raised |-> "no", config |-> parse_node_config(data)]

\* serialize_node of save_to_file, wrapped in the dictionary it writes:
\* the keys of the file are 'metadata', 'tree' and 'subtrees'.
tree_data(root) ==
    [keys |-> {"metadata", "tree", "subtrees"},
     type |-> <<>>,
     properties |-> "none",
     children |-> <<root>>]

\* json.dump followed by json.load on a property value: a tuple comes back
\* as a list.
JsonValue(v) == IF v = "tuple" THEN "list" ELSE v

\* json.dump / yaml.dump followed by json.load / yaml.safe_load: the
\* dictionary comes back with the same keys, and the values as the format
\* reads them.
Reloaded(document) ==
    [document EXCEPT
        !.properties = JsonValue(@),
        !.children = [k \in DOMAIN @ |->
                         IF "properties" \in DOMAIN @[k]
                         THEN [@[k] EXCEPT !.properties = JsonValue(@)]
                         ELSE @[k]]]

\* The trees a manager holds: a root of one of the classes _build_tree
\* knows, with children.
Trees ==
    {t \in Documents :
        /\ t.keys = {"name", "type", "properties", "children"}
        /\ t.type = <<"Sequence", "Node">>
        /\ \A k \in 1 .. Len(t.children) : t.children[k].type \in collect_node_types}

\* ConfigLoader() and BehaviorTreeManager() with a root assigned; the
\* dictionary that will be validated; nothing validated yet, no file.
InitLoader ==
    /\ CompositeIdle
    /\ NodeIdle
    /\ RetryIdle
    /\ ParallelIdle
    /\ RecordsIdle
    /\ MoreIdle
    /\ randomNode = Off
    /\ emitter = Off
    /\ shape = Off
    /\ client = Off
    /\ \E input \in Documents, root \in Trees :
          loader = [pc |-> "idle",
                    input |-> input,
                    root |-> root,
                    file |-> Nothing,
                    suffix |-> "none",
                    \* history: the last call, its argument, and its outcome
                    op |-> "init",
                    data |-> Nothing,
                    raised |-> "no",
                    config |-> Nothing]

\* ConfigLoader.validate_and_parse(data)
ValidateAndParse ==
    /\ loader.pc = "idle"
    /\ LET data == loader.input
           parsed == validate_and_parse(data)
       IN  loader' = [loader EXCEPT !.op = "validate_and_parse",
                                    !.data = data,
                                    !.raised = parsed.raised,
                                    !.config = parsed.config]
    /\ UNCHANGED notLoader

\* manager.save_to_file(path): .json and .yaml paths are written, any
\* other suffix raises ValueError.
SaveToFile ==
    /\ loader.pc = "idle"
    /\ \E suffix \in {".json", ".yaml", ".txt"} :
          loader' = IF suffix = ".txt"
                    THEN [loader EXCEPT !.op = "save_to_file",
                                        !.data = Nothing,
                                        !.raised = "ValueError",
                                        !.config = Nothing]
                    ELSE [loader EXCEPT !.op = "save_to_file",
                                        !.file = tree_data(loader.root),
                                        !.suffix = suffix,
                                        !.data = Nothing,
                                        !.raised = "no",
                                        !.config = Nothing]
    /\ UNCHANGED notLoader

\* manager.load_from_file(path) on the file save_to_file wrote:
\* config_loader.load_file parses it and calls validate_and_parse, turning
\* every exception into ConfigValidationError; a NodeConfig that comes
\* back is then tested with `'metadata' in tree_data`, a TypeError. The
\* exception leaves the root as it was.
LoadFromFile ==
    /\ loader.pc = "idle"
    /\ loader.file # Nothing
    /\ LET data == Reloaded(loader.file)
           parsed == validate_and_parse(data)
       IN  loader' = [loader EXCEPT !.op = "load_from_file",
                                    !.data = data,
                                    !.raised = IF parsed.raised # "no"
                                               THEN "ConfigValidationError"
                                               ELSE "TypeError",
                                    !.config = Nothing]
    /\ UNCHANGED notLoader

NextLoader ==
    \/ ValidateAndParse
    \/ SaveToFile
    \/ LoadFromFile

SpecLoader == InitLoader /\ [][NextLoader]_vars

\* The types named by a dictionary: its own and its children's.
TypesOf(data) == {data.type} \cup {data.children[k].type : k \in 1 .. Len(data.children)}

\* C33: validate_and_parse raises ConfigValidationError and produces nothing
\* when a node type anywhere in the configuration, root or nested, is no
\* known class, and accepts a configuration whose types are all built-in
\* composite, decorator or leaf classes.
C33_UnknownTypeRejected ==
    (loader.op = "validate_and_parse" /\ SchemaValid(loader.data)) =>
        LET known == CompositeClasses \cup DecoratorClasses \cup LeafClasses
        IN  /\ ~(TypesOf(loader.data) \subseteq known) =>
                  /\ loader.raised = "ConfigValidationError"
                  /\ loader.config = Nothing
            /\ TypesOf(loader.data) \subseteq known =>
                  /\ loader.raised = "no"
                  /\ loader.config # Nothing

\* C34: load_from_file on the .json or .yaml file that save_to_file wrote
\* succeeds and leaves the manager with a root of the saved names, types,
\* properties and child order.
C34_SaveLoadRoundTrip ==
    loader.op = "load_from_file" =>
        /\ loader.raised = "no"
        /\ loader.root = loader.data.children[1]

====
